---- MODULE Spec2Model ----
(***************************************************************************)
(* Verification model of the LinkedIn Easy Apply automation                *)
(* (src/app/applier/job_applier.py, class LinkedInJobApplier).             *)
(*                                                                         *)
(* Three specifications share one set of variables:                        *)
(*   SpecClassify  detect_current_page_type applied to one DOM snapshot    *)
(*   Spec          one run of handle_easy_apply_form (the step loop)       *)
(*   SpecBatch     one run of apply_to_jobs / _apply_to_job                *)
(* The browser page is outside the program's control, so every read of it  *)
(* is an input chosen from the values the read can return.                 *)
(***************************************************************************)
EXTENDS Integers, Sequences, FiniteSets, TLC

VARIABLES
    \* ---- detect_current_page_type on one snapshot ----
    page,                \* the DOM snapshot that is classified
    detected,            \* value returned for it ("none" before the call)
    \* ---- handle_easy_apply_form ----
    pc,                  \* position in handle_easy_apply_form
    current_step,        \* local current_step
    consecutive_errors,  \* local consecutive_errors
    completed_sections,  \* local completed_sections
    page_type,           \* local page_type of the current step
    result,              \* return value: "pending", "True", "False", "raise"
    exit_line,           \* source line of the return statement taken (0: none)
    invoked,             \* history: number of calls of each section handler
    indicator_seen,      \* history: check_submission_success returned True
    answer,              \* history: last operator answer to a y/n prompt
    displayed,           \* the page displays a success indicator
    submit_clicked,      \* history: a submit-typed button was clicked
    failed_in_row,       \* history: steps that failed since the last successful click
    \* ---- apply_to_jobs ----
    bpc,                 \* position in apply_to_jobs / _apply_to_job
    matches,             \* the list passed to apply_to_jobs
    min_score,           \* self.min_score
    max_apply,           \* self.max_apply
    results,             \* the results dictionary
    applied_count,       \* local applied_count
    idx,                 \* index of the loop over matches (1-based)
    job_page,            \* the job page loaded by driver.get for this candidate
    navigated,           \* history: scores of the candidates driver.get was called for
    clicked_apply,       \* history: the Easy Apply button of this candidate was clicked
    form_entered,        \* history: handle_easy_apply_form was called for this candidate
    closed_modal,        \* history: close_modal was called for this candidate
    outcome,             \* history: how the last processed candidate was counted
    raised,              \* history: an exception reached the except clause of _apply_to_job
    loop_raised,         \* history: the step loop of this candidate absorbed an exception
    given,               \* history: the list as it was passed to apply_to_jobs
    \* ---- safe_click and handle_resume_section on one resume page ----
    resume_page,         \* the resume step of the modal as the handler reads it
    click_return,        \* value returned by safe_click ("none" before the call)
    tried,               \* history: the click strategies safe_click ran, in order
    resume_return,       \* value returned by handle_resume_section
    clicked,             \* history: index of the item whose radio was handed to safe_click (0: none)
    uploaded,            \* history: index of the file input that took the resume path (0: none)
    \* ---- fill_contact_info on one contact page ----
    email,               \* self.email
    phone,               \* self.phone
    email_field,         \* the first input of type email of the page
    phone_field,         \* the first input of type tel of the page
    contact_before,      \* history: the two fields before the last call
    contact_runs,        \* history: number of calls of fill_contact_info
    \* ---- _apply_batch_jobs of the server ----
    wpc,                 \* position of the worker thread in _apply_batch_jobs
    session_matches,     \* job_session.matches, each reduced to its final_score
    threshold,           \* argument threshold
    max_applications,    \* argument max_applications
    scraper_session,     \* job_session.scraper_session and its driver are there
    resume_file,         \* job_session.resume_path names an existing file
    qualifying_matches,  \* local qualifying_matches
    apply_progress,      \* job_session.apply_progress (stage, total, error)
    applier,             \* local applier: "none" or "constructed"
    \* ---- the fallback branch of one 'unknown' step ----
    fb_page,             \* what the looser heuristics read on the page
    fb_completed,        \* completed_sections when the branch is entered
    fb_stage,            \* the part of lines 491-616 that runs next
    fb_walk,             \* completed_sections, handled and the handler calls so far
    \* ---- find_and_click_next_button on one page ----
    buttons,             \* what each selector of button_selectors meets on the page
    button_return,       \* the pair returned (<<>> before the call)
    handed,              \* history: the selectors whose button was handed to safe_click
    \* ---- one session of the server: search worker and request handlers ----
    stage,               \* job_session.stage
    session_results,     \* job_session.results ("None" until assigned)
    login_confirmed,     \* job_session.login_confirmed
    search_pc,           \* position of the thread running _process_job_search
    status_pc,           \* position of a get_job_status request
    response,            \* the response that request builds
    login_pc,            \* position of a confirm_login request
    batch_pc,            \* position of each batch_apply request
    apply_threads,       \* history: number of _apply_batch_jobs threads started
    progress,            \* job_session.progress
    \* ---- one call of the questions callback of _apply_batch_jobs ----
    cb_pc,               \* position of the thread running questions_callback
    waiting_for_questions,  \* job_session.apply_progress['waiting_for_questions']
    questions_confirmed, \* job_session.questions_confirmed
    elapsed,             \* local elapsed
    poll_seen,           \* history: a get_apply_status response showed the flag true
    confirmed_after_poll \* history: confirm_questions ran after such a response, in time

classify_vars == <<page, detected>>
form_vars == <<pc, current_step, consecutive_errors, completed_sections,
               page_type, result, exit_line, invoked, indicator_seen, answer,
               displayed, submit_clicked, failed_in_row>>
batch_vars == <<bpc, matches, min_score, max_apply, results, applied_count, idx,
                job_page, navigated, clicked_apply, form_entered, closed_modal,
                outcome, raised, loop_raised, given>>
resume_vars == <<resume_page, click_return, tried, resume_return, clicked,
                 uploaded>>
contact_vars == <<email, phone, email_field, phone_field, contact_before,
                  contact_runs>>
worker_vars == <<wpc, session_matches, threshold, max_applications,
                 scraper_session, resume_file, qualifying_matches,
                 apply_progress, applier>>
fallback_vars == <<fb_page, fb_completed, fb_stage, fb_walk>>
button_vars == <<buttons, button_return, handed>>
server_vars == <<stage, session_results, login_confirmed, search_pc,
                 status_pc, response, login_pc, batch_pc, apply_threads,
                 progress>>
questions_vars == <<cb_pc, waiting_for_questions, questions_confirmed, elapsed,
                    poll_seen, confirmed_after_poll>>
aux_vars == <<fallback_vars, button_vars, server_vars, questions_vars>>
unit_vars == <<resume_vars, contact_vars, worker_vars, aux_vars>>
vars == <<classify_vars, form_vars, batch_vars, unit_vars>>

(***************************************************************************)
(* Bounds of the model                                                     *)
(***************************************************************************)
MaxRadioGroups == 2
MaxInputs == 2
MaxHeadings == 2
MaxJobs == 3
MaxScore == 2
MaxApply == 2
MaxItems == 2
MaxFiles == 1
MaxRuns == 2
MaxRequests == 2

(***************************************************************************)
(* Program constants                                                       *)
(***************************************************************************)
max_steps == 10
MaxConsecutiveErrors == 3
MinRadioGroups == 2
MinNonContactInputs == 2

Sections == {"contact", "resume", "questions"}
PageTypes == {"contact", "resume", "questions", "review", "unknown"}

(***************************************************************************)
(* detect_current_page_type                                                *)
(*                                                                         *)
(* A snapshot records what the DOM reads of the classifier return.  err is *)
(* the check whose unguarded DOM access raises ("none": no access raises); *)
(* accesses guarded by an inner try/except only skip the element and are   *)
(* folded into the value read; heading_err tells that the guard of the     *)
(* heading loop caught such an error.                                      *)
(***************************************************************************)
ErrPoints == {"none", "contact", "resume", "heading", "structure", "labels",
              "inputs", "review"}

Pages == [email : BOOLEAN,          \* a displayed input[@type='email']
          tel : BOOLEAN,            \* a displayed input[@type='tel']
          file : BOOLEAN,           \* a displayed input[@type='file']
          doc : BOOLEAN,            \* a displayed jobs-document-upload element
          heading : BOOLEAN,        \* a displayed 'Additional Question(s)' node
          heading_err : BOOLEAN,    \* is_displayed of such a node raises (line 168)
          qtext : BOOLEAN,          \* page source holds a question phrase
          contact_text : BOOLEAN,   \* page source holds 'contact info'
          resume_text : BOOLEAN,    \* page source holds 'resume'
          radio_groups : 0..MaxRadioGroups,  \* distinct names of displayed radios
          selects : BOOLEAN,        \* at least one displayed select
          qlabels : BOOLEAN,        \* at least one displayed question-like label
          other_inputs : 0..MaxInputs,       \* displayed non-contact inputs
          submit : BOOLEAN,         \* a displayed primary button with 'submit'
          err : ErrPoints]

ContactSignal(p) == p.email \/ p.tel
ResumeSignal(p) == p.file \/ p.doc
HeadingSignal(p) == p.heading
TextSignal(p) == p.qtext /\ ~p.contact_text /\ ~p.resume_text
StructureSignal(p) ==
    (p.radio_groups >= MinRadioGroups \/ p.selects) /\ p.qlabels
InputsSignal(p) == p.other_inputs >= MinNonContactInputs
ReviewSignal(p) == p.submit

\* mutation: the review check is made first
DetectPageType_ReviewFirst(p) ==
    IF p.err = "review" THEN "unknown"
    ELSE IF ReviewSignal(p) THEN "review"
    ELSE IF p.err = "contact" THEN "unknown"
    ELSE IF ContactSignal(p) THEN "contact"
    ELSE IF p.err = "resume" THEN "unknown"
    ELSE IF ResumeSignal(p) THEN "resume"
    ELSE IF HeadingSignal(p) \/ TextSignal(p) THEN "questions"
    ELSE "unknown"

\* mutation: the button loop of the review check is outside the try block
DetectPageType_ReviewUnguarded(p) ==
    IF p.err = "contact" THEN "unknown"
    ELSE IF ContactSignal(p) THEN "contact"
    ELSE IF p.err = "resume" THEN "unknown"
    ELSE IF ResumeSignal(p) THEN "resume"
    ELSE IF p.err = "heading" THEN "unknown"
    ELSE IF HeadingSignal(p) THEN "questions"
    ELSE IF TextSignal(p) THEN "questions"
    ELSE IF p.err = "structure" THEN "unknown"
    ELSE IF (p.radio_groups >= MinRadioGroups \/ p.selects) /\ p.err = "labels"
         THEN "unknown"
    ELSE IF StructureSignal(p) THEN "questions"
    ELSE IF p.err = "inputs" THEN "unknown"
    ELSE IF InputsSignal(p) THEN "questions"
    ELSE IF p.err = "review" THEN "raise"
    ELSE IF ReviewSignal(p) THEN "review"
    ELSE "unknown"

\* mutation: the count of the other form inputs (method 3) is left out
DetectPageType_NoInputs(p) ==
    IF p.err = "contact" THEN "unknown"
    ELSE IF ContactSignal(p) THEN "contact"
    ELSE IF p.err = "resume" THEN "unknown"
    ELSE IF ResumeSignal(p) THEN "resume"
    ELSE IF p.err = "heading" THEN "unknown"
    ELSE IF HeadingSignal(p) THEN "questions"
    ELSE IF TextSignal(p) THEN "questions"
    ELSE IF p.err = "structure" THEN "unknown"
    ELSE IF (p.radio_groups >= MinRadioGroups \/ p.selects) /\ p.err = "labels"
         THEN "unknown"
    ELSE IF StructureSignal(p) THEN "questions"
    ELSE IF p.err = "review" THEN "unknown"
    ELSE IF ReviewSignal(p) THEN "review"
    ELSE "unknown"

\* lines 125-294: an error of the heading loop only skips the node
DetectPageType(p) ==
    IF p.err = "contact" THEN "unknown"
    ELSE IF ContactSignal(p) THEN "contact"
    ELSE IF p.err = "resume" THEN "unknown"
    ELSE IF ResumeSignal(p) THEN "resume"
    ELSE IF p.err = "heading" THEN "unknown"
    ELSE IF HeadingSignal(p) THEN "questions"
    ELSE IF TextSignal(p) THEN "questions"
    ELSE IF p.err = "structure" THEN "unknown"
    ELSE IF (p.radio_groups >= MinRadioGroups \/ p.selects) /\ p.err = "labels"
         THEN "unknown"
    ELSE IF StructureSignal(p) THEN "questions"
    ELSE IF p.err = "inputs" THEN "unknown"
    ELSE IF InputsSignal(p) THEN "questions"
    ELSE IF p.err = "review" THEN "unknown"
    ELSE IF ReviewSignal(p) THEN "review"
    ELSE "unknown"

\* the values the classifier can return for some page
ClassifierResults == {DetectPageType(p) : p \in Pages}

NoPage == [email |-> FALSE, tel |-> FALSE, file |-> FALSE, doc |-> FALSE,
           heading |-> FALSE, heading_err |-> FALSE, qtext |-> FALSE,
           contact_text |-> FALSE,
           resume_text |-> FALSE, radio_groups |-> 0, selects |-> FALSE,
           qlabels |-> FALSE, other_inputs |-> 0, submit |-> FALSE,
           err |-> "none"]

(***************************************************************************)
(* handle_easy_apply_form: the fallback branch of an 'unknown' step        *)
(*                                                                         *)
(* A fallback snapshot records what the looser heuristics read:            *)
(*   contact    contact fields or contact text, no 'additional questions'  *)
(*   resume     resume fields or resume text, no 'additional questions'    *)
(*   headings   number of displayed 'Additional Question(s)' nodes         *)
(*   structure  question text with radios/selects and a displayed label    *)
(*   err        the stage whose unguarded DOM access raises                *)
(* A walk state s carries completed_sections, handled, the handler calls   *)
(* made in this step, the number of input() calls that still raise, and    *)
(* whether the exception handlers of lines 596 and 650 were reached.       *)
(***************************************************************************)
FallbackErr == {"none", "contact", "resume", "heading", "structure"}

FallbackPages == [contact : BOOLEAN, resume : BOOLEAN,
                  headings : 0..MaxHeadings, structure : BOOLEAN,
                  err : FallbackErr]

NoCalls == [contact |-> 0, resume |-> 0, questions |-> 0]

Walk(completed, fails) ==
    [completed |-> completed, handled |-> FALSE, calls |-> NoCalls,
     fails |-> fails, caught |-> FALSE, raised |-> FALSE]

Min(a, b) == IF a < b THEN a ELSE b

\* fill_contact_info / handle_resume_section: catch everything, return True
RunHandler(s, sec) ==
    [s EXCEPT !.calls[sec] = @ + 1,
              !.completed = @ \cup {sec},
              !.handled = TRUE]

\* lines 498-520
FallbackContact(s, fb) ==
    IF fb.err = "contact" THEN [s EXCEPT !.caught = TRUE]
    ELSE IF fb.contact /\ "contact" \notin s.completed
         THEN RunHandler(s, "contact")
    ELSE s

\* lines 522-540
FallbackResume(s, fb) ==
    IF s.caught \/ s.handled THEN s
    ELSE IF fb.err = "resume" THEN [s EXCEPT !.caught = TRUE]
    ELSE IF fb.resume /\ "resume" \notin s.completed
         THEN RunHandler(s, "resume")
    ELSE s

\* lines 543-560: one try per displayed heading; a raising prompt is swallowed
\* by the bare except and the next heading is tried
FallbackHeading(s, fb) ==
    IF s.caught \/ s.handled THEN s
    ELSE IF fb.err = "heading" THEN [s EXCEPT !.caught = TRUE]
    ELSE IF fb.headings = 0 \/ "questions" \in s.completed THEN s
    ELSE IF s.fails < fb.headings
         THEN [s EXCEPT !.calls["questions"] = @ + s.fails + 1,
                        !.completed = @ \cup {"questions"},
                        !.handled = TRUE,
                        !.fails = 0]
    ELSE [s EXCEPT !.calls["questions"] = @ + fb.headings,
                   !.fails = @ - fb.headings]

\* lines 562-598: a raising prompt is caught by the except of line 596
FallbackStructure(s, fb) ==
    IF s.caught \/ s.handled THEN s
    ELSE IF fb.err = "structure" THEN [s EXCEPT !.caught = TRUE]
    ELSE IF fb.structure /\ "questions" \notin s.completed
         THEN IF s.fails > 0
              THEN [s EXCEPT !.calls["questions"] = @ + 1,
                             !.fails = @ - 1,
                             !.caught = TRUE]
              ELSE RunHandler(s, "questions")
    ELSE s

\* mutation: the last resort takes the sections in the reverse order
LastResort_Reversed(s) ==
    IF s.handled THEN s
    ELSE IF "questions" \notin s.completed
         THEN IF s.fails > 0
              THEN [s EXCEPT !.calls["questions"] = @ + 1,
                             !.fails = @ - 1,
                             !.raised = TRUE]
              ELSE RunHandler(s, "questions")
    ELSE IF "resume" \notin s.completed THEN RunHandler(s, "resume")
    ELSE IF "contact" \notin s.completed THEN RunHandler(s, "contact")
    ELSE s

\* lines 600-616: a raising prompt leaves the try body of the step
LastResort(s) ==
    IF s.handled THEN s
    ELSE IF "contact" \notin s.completed THEN RunHandler(s, "contact")
    ELSE IF "resume" \notin s.completed THEN RunHandler(s, "resume")
    ELSE IF "questions" \notin s.completed
         THEN IF s.fails > 0
              THEN [s EXCEPT !.calls["questions"] = @ + 1,
                             !.fails = @ - 1,
                             !.raised = TRUE]
              ELSE RunHandler(s, "questions")
    ELSE s

\* lines 491-616
Fallback(completed, fb, fails) ==
    LastResort(
      FallbackStructure(
        FallbackHeading(
          FallbackResume(
            FallbackContact(Walk(completed, fails), fb), fb), fb), fb))

\* mutation: a review step runs the questions handler
Direct_ReviewRunsQuestions(completed, ptype, fails) ==
    IF ptype \in {"contact", "resume"} /\ ptype \notin completed
        THEN RunHandler(Walk(completed, fails), ptype)
    ELSE IF ptype \in {"questions", "review"} /\ "questions" \notin completed
        THEN IF fails > 0
             THEN [Walk(completed, fails) EXCEPT !.calls["questions"] = @ + 1,
                                                 !.fails = @ - 1,
                                                 !.raised = TRUE]
             ELSE RunHandler(Walk(completed, fails), "questions")
    ELSE IF ptype = "review"
        THEN [Walk(completed, fails) EXCEPT !.handled = TRUE]
    ELSE Walk(completed, fails)

\* lines 472-489: the branch taken when the classifier names a page type
Direct(completed, ptype, fails) ==
    IF ptype \in {"contact", "resume"} /\ ptype \notin completed
        THEN RunHandler(Walk(completed, fails), ptype)
    ELSE IF ptype = "questions" /\ "questions" \notin completed
        THEN IF fails > 0
             THEN [Walk(completed, fails) EXCEPT !.calls["questions"] = @ + 1,
                                                 !.fails = @ - 1,
                                                 !.raised = TRUE]
             ELSE RunHandler(Walk(completed, fails), "questions")
    ELSE IF ptype = "review"
        THEN [Walk(completed, fails) EXCEPT !.handled = TRUE]
    ELSE Walk(completed, fails)

AddCalls(inv, calls) == [k \in Sections |-> inv[k] + calls[k]]

(***************************************************************************)
(* handle_easy_apply_form: the step loop                                   *)
(***************************************************************************)
PollTries == 5
timeout == 300

\* the (button_clicked, is_submit) pairs find_and_click_next_button returns
NextButtonResults == {<<FALSE, FALSE>>, <<TRUE, FALSE>>, <<TRUE, TRUE>>}

\* what input() yields: 'y', any other line, or an exception (EOFError)
Answers == {"y", "n", "raise"}

Return(val, line) ==
    /\ result' = val
    /\ exit_line' = line
    /\ pc' = "done"

\* lines 650-654: the except clause of the step body
ExceptClause ==
    /\ consecutive_errors' = consecutive_errors + 1
    /\ IF consecutive_errors + 1 >= MaxConsecutiveErrors
       THEN Return("False", 654)
       ELSE pc' = "loop" /\ UNCHANGED <<result, exit_line>>

\* line 440: wait_for_modal returns True
ModalAppears ==
    /\ pc = "modal"
    /\ pc' = "loop"
    /\ UNCHANGED <<current_step, consecutive_errors, completed_sections,
                   page_type, result, exit_line, invoked, indicator_seen,
                   answer>>
    /\ UNCHANGED <<displayed, submit_clicked, failed_in_row>>
    /\ UNCHANGED <<classify_vars, batch_vars, unit_vars>>

\* mutation: the timeout is noted and the step loop is entered all the same
ModalTimeout_EntersLoop ==
    /\ pc = "modal"
    /\ exit_line' = 442
    /\ pc' = "loop"
    /\ UNCHANGED <<current_step, consecutive_errors, completed_sections,
                   page_type, result, invoked, indicator_seen, answer>>
    /\ UNCHANGED <<displayed, submit_clicked, failed_in_row>>
    /\ UNCHANGED <<classify_vars, batch_vars, unit_vars>>

\* lines 440-442: wait_for_modal times out
ModalTimeout ==
    /\ pc = "modal"
    /\ Return("False", 442)
    /\ UNCHANGED <<current_step, consecutive_errors, completed_sections,
                   page_type, invoked, indicator_seen, answer>>
    /\ UNCHANGED <<displayed, submit_clicked, failed_in_row>>
    /\ UNCHANGED <<classify_vars, batch_vars, unit_vars>>

\* line 118: the wait raises something other than TimeoutException, which
\* leaves handle_easy_apply_form
ModalError ==
    /\ pc = "modal"
    /\ Return("raise", 118)
    /\ UNCHANGED <<current_step, consecutive_errors, completed_sections,
                   page_type, invoked, indicator_seen, answer>>
    /\ UNCHANGED <<displayed, submit_clicked, failed_in_row>>
    /\ UNCHANGED <<classify_vars, batch_vars, unit_vars>>

\* mutation: an exhausted step budget is reported as success
MaxStepsReached_Success ==
    /\ pc = "loop"
    /\ ~(current_step < max_steps)
    /\ Return("True", 657)
    /\ UNCHANGED <<current_step, consecutive_errors, completed_sections,
                   page_type, invoked, indicator_seen, answer>>
    /\ UNCHANGED <<displayed, submit_clicked, failed_in_row>>
    /\ UNCHANGED <<classify_vars, batch_vars, unit_vars>>

\* lines 453, 656-657: the while condition fails
MaxStepsReached ==
    /\ pc = "loop"
    /\ ~(current_step < max_steps)
    /\ Return("False", 657)
    /\ UNCHANGED <<current_step, consecutive_errors, completed_sections,
                   page_type, invoked, indicator_seen, answer>>
    /\ UNCHANGED <<displayed, submit_clicked, failed_in_row>>
    /\ UNCHANGED <<classify_vars, batch_vars, unit_vars>>

\* lines 453-460, 416-431: a step starts and check_submission_success finds
\* a displayed success indicator
AlreadySubmitted ==
    /\ pc = "loop"
    /\ current_step < max_steps
    /\ displayed
    /\ current_step' = current_step + 1
    /\ indicator_seen' = TRUE
    /\ Return("True", 460)
    /\ UNCHANGED <<consecutive_errors, completed_sections, page_type,
                   invoked, answer>>
    /\ UNCHANGED <<displayed, submit_clicked, failed_in_row>>
    /\ UNCHANGED <<classify_vars, batch_vars, unit_vars>>

\* mutation: the step counter is not advanced
BeginStep_NoIncrement ==
    /\ pc = "loop"
    /\ current_step < max_steps
    /\ ~displayed
    /\ pc' = "classify"
    /\ UNCHANGED <<current_step, consecutive_errors, completed_sections,
                   page_type, result, exit_line, invoked, indicator_seen,
                   answer>>
    /\ UNCHANGED <<displayed, submit_clicked, failed_in_row>>
    /\ UNCHANGED <<classify_vars, batch_vars, unit_vars>>

\* mutation: the step goes on to classify the page without looking at the
\* success indicator
BeginStep_IgnoresIndicator ==
    /\ pc = "loop"
    /\ current_step < max_steps
    /\ current_step' = current_step + 1
    /\ pc' = "classify"
    /\ UNCHANGED <<consecutive_errors, completed_sections, page_type, result,
                   exit_line, invoked, indicator_seen, answer>>
    /\ UNCHANGED <<displayed, submit_clicked, failed_in_row>>
    /\ UNCHANGED <<classify_vars, batch_vars, unit_vars>>

\* lines 453-462: a step starts and the success indicator is absent
BeginStep ==
    /\ pc = "loop"
    /\ current_step < max_steps
    /\ ~displayed
    /\ current_step' = current_step + 1
    /\ pc' = "classify"
    /\ UNCHANGED <<consecutive_errors, completed_sections, page_type, result,
                   exit_line, invoked, indicator_seen, answer>>
    /\ UNCHANGED <<displayed, submit_clicked, failed_in_row>>
    /\ UNCHANGED <<classify_vars, batch_vars, unit_vars>>

\* line 465
Classify ==
    /\ pc = "classify"
    /\ \E t \in ClassifierResults : page_type' = t
    /\ pc' = "handle"
    /\ UNCHANGED <<current_step, consecutive_errors, completed_sections,
                   result, exit_line, invoked, indicator_seen, answer>>
    /\ UNCHANGED <<displayed, submit_clicked, failed_in_row>>
    /\ UNCHANGED <<classify_vars, batch_vars, unit_vars>>

\* the state after the handler branch s of a step
AfterHandlers(s) ==
    /\ completed_sections' = s.completed
    /\ invoked' = AddCalls(invoked, s.calls)
    /\ failed_in_row' = IF s.raised THEN failed_in_row + 1 ELSE failed_in_row
    /\ IF s.raised
       THEN ExceptClause
       ELSE /\ pc' = "click"
            /\ UNCHANGED <<consecutive_errors, result, exit_line>>

\* lines 472-489
HandleSection ==
    /\ pc = "handle"
    /\ page_type # "unknown"
    /\ \E fails \in 0..1 :
         AfterHandlers(Direct(completed_sections, page_type, fails))
    /\ UNCHANGED <<current_step, page_type, indicator_seen, answer>>
    /\ UNCHANGED <<displayed, submit_clicked>>
    /\ UNCHANGED <<classify_vars, batch_vars, unit_vars>>

\* lines 491-616
HandleUnknown ==
    /\ pc = "handle"
    /\ page_type = "unknown"
    /\ \E fb \in FallbackPages, fails \in 0..(MaxHeadings + 2) :
         AfterHandlers(Fallback(completed_sections, fb, fails))
    /\ UNCHANGED <<current_step, page_type, indicator_seen, answer>>
    /\ UNCHANGED <<displayed, submit_clicked>>
    /\ UNCHANGED <<classify_vars, batch_vars, unit_vars>>

\* mutation: the session goes on until the counter exceeds the budget
NoButton_Exceeds ==
    /\ pc = "click"
    /\ <<FALSE, FALSE>> \in NextButtonResults
    /\ consecutive_errors' = consecutive_errors + 1
    /\ pc' = IF consecutive_errors + 1 > MaxConsecutiveErrors
             THEN "ask_manual" ELSE "loop"
    /\ UNCHANGED <<current_step, completed_sections, page_type, result,
                   exit_line, invoked, indicator_seen, answer>>
    /\ failed_in_row' = failed_in_row + 1
    /\ UNCHANGED <<displayed, submit_clicked>>
    /\ UNCHANGED <<classify_vars, batch_vars, unit_vars>>

\* lines 622-630: no button was clicked
NoButton ==
    /\ pc = "click"
    /\ <<FALSE, FALSE>> \in NextButtonResults
    /\ consecutive_errors' = consecutive_errors + 1
    /\ pc' = IF consecutive_errors + 1 >= MaxConsecutiveErrors
             THEN "ask_manual" ELSE "loop"
    /\ UNCHANGED <<current_step, completed_sections, page_type, result,
                   exit_line, invoked, indicator_seen, answer>>
    /\ failed_in_row' = failed_in_row + 1
    /\ UNCHANGED <<displayed, submit_clicked>>
    /\ UNCHANGED <<classify_vars, batch_vars, unit_vars>>

\* mutation: a click does not reset the counter
ClickNext_KeepsCounter ==
    /\ pc = "click"
    /\ <<TRUE, FALSE>> \in NextButtonResults
    /\ pc' = "loop"
    /\ UNCHANGED <<current_step, consecutive_errors, completed_sections,
                   page_type, result, exit_line, invoked, indicator_seen,
                   answer>>
    /\ failed_in_row' = 0
    /\ \E shows \in BOOLEAN : displayed' = shows
    /\ UNCHANGED submit_clicked
    /\ UNCHANGED <<classify_vars, batch_vars, unit_vars>>

\* lines 622-648: a button that is not submit-typed was clicked; the page it
\* leads to shows the success indicator or not
ClickNext ==
    /\ pc = "click"
    /\ <<TRUE, FALSE>> \in NextButtonResults
    /\ consecutive_errors' = 0
    /\ pc' = "loop"
    /\ UNCHANGED <<current_step, completed_sections, page_type, result,
                   exit_line, invoked, indicator_seen, answer>>
    /\ failed_in_row' = 0
    /\ \E shows \in BOOLEAN : displayed' = shows
    /\ UNCHANGED submit_clicked
    /\ UNCHANGED <<classify_vars, batch_vars, unit_vars>>

\* mutation: success is assumed when the confirmation poll runs out
ClickSubmit_AssumeSuccess ==
    /\ pc = "click"
    /\ <<TRUE, TRUE>> \in NextButtonResults
    /\ consecutive_errors' = 0
    /\ \E seen_at \in 0..PollTries :
         /\ displayed' = (seen_at > 0)
         /\ IF seen_at > 0
            THEN indicator_seen' = TRUE /\ Return("True", 642)
            ELSE Return("True", 646) /\ UNCHANGED indicator_seen
    /\ UNCHANGED <<current_step, completed_sections, page_type, invoked,
                   answer>>
    /\ failed_in_row' = 0
    /\ submit_clicked' = TRUE
    /\ UNCHANGED <<classify_vars, batch_vars, unit_vars>>

\* lines 622-642: a submit-typed button was clicked; seen_at is the poll
\* iteration that finds the success indicator the click brought up (0: the
\* page does not show one while the poll lasts)
ClickSubmit ==
    /\ pc = "click"
    /\ <<TRUE, TRUE>> \in NextButtonResults
    /\ consecutive_errors' = 0
    /\ \E seen_at \in 0..PollTries :
         /\ displayed' = (seen_at > 0)
         /\ IF seen_at > 0
            THEN indicator_seen' = TRUE /\ Return("True", 642)
            ELSE /\ pc' = "ask_sent"
                 /\ UNCHANGED <<result, exit_line, indicator_seen>>
    /\ UNCHANGED <<current_step, completed_sections, page_type, invoked,
                   answer>>
    /\ failed_in_row' = 0
    /\ submit_clicked' = TRUE
    /\ UNCHANGED <<classify_vars, batch_vars, unit_vars>>

\* lines 627-629: "Did you submit manually?"
AskManual ==
    /\ pc = "ask_manual"
    /\ \E a \in Answers :
         /\ answer' = a
         /\ IF a = "raise"
            THEN ExceptClause
            ELSE /\ Return(IF a = "y" THEN "True" ELSE "False", 629)
                 /\ UNCHANGED consecutive_errors
    /\ UNCHANGED <<current_step, completed_sections, page_type, invoked,
                   indicator_seen>>
    /\ UNCHANGED <<displayed, submit_clicked, failed_in_row>>
    /\ UNCHANGED <<classify_vars, batch_vars, unit_vars>>

\* lines 644-646: "Did you see 'Application sent'?"
AskSent ==
    /\ pc = "ask_sent"
    /\ \E a \in Answers :
         /\ answer' = a
         /\ IF a = "raise"
            THEN ExceptClause
            ELSE /\ Return(IF a = "y" THEN "True" ELSE "False", 646)
                 /\ UNCHANGED consecutive_errors
    /\ UNCHANGED <<current_step, completed_sections, page_type, invoked,
                   indicator_seen>>
    /\ failed_in_row' = IF answer' = "raise" THEN failed_in_row + 1
                        ELSE failed_in_row
    /\ UNCHANGED <<displayed, submit_clicked>>
    /\ UNCHANGED <<classify_vars, batch_vars, unit_vars>>

IdleClassify == page = NoPage /\ detected = "none"

IdleForm ==
    /\ pc = "idle"
    /\ current_step = 0
    /\ consecutive_errors = 0
    /\ completed_sections = {}
    /\ page_type = "none"
    /\ result = "pending"
    /\ exit_line = 0
    /\ invoked = NoCalls
    /\ indicator_seen = FALSE
    /\ answer = "none"
    /\ displayed = FALSE
    /\ submit_clicked = FALSE
    /\ failed_in_row = 0

NoJobPage == [loaded |-> FALSE, marker |-> FALSE, src_err |-> FALSE,
              button |-> "none"]

IdleBatch ==
    /\ bpc = "idle"
    /\ matches = <<>>
    /\ min_score = 0
    /\ max_apply = 0
    /\ results = [attempted |-> 0, applied |-> 0, failed |-> 0,
                  skipped |-> 0, details |-> <<>>]
    /\ applied_count = 0
    /\ idx = 0
    /\ job_page = NoJobPage
    /\ navigated = <<>>
    /\ clicked_apply = FALSE
    /\ form_entered = FALSE
    /\ closed_modal = FALSE
    /\ outcome = "none"
    /\ raised = FALSE
    /\ loop_raised = FALSE
    /\ given = <<>>

\* no resume page is being handled
NoResumePage == [checked |-> "none", items |-> <<>>, radio |-> <<>>,
                 files |-> <<>>, err |-> "none"]

IdleResume ==
    /\ resume_page = NoResumePage
    /\ click_return = "none"
    /\ tried = <<>>
    /\ resume_return = "none"
    /\ clicked = 0
    /\ uploaded = 0

\* no contact page is being handled
NoField == [state |-> "absent", value |-> <<>>]

IdleContact ==
    /\ email = ""
    /\ phone = ""
    /\ email_field = NoField
    /\ phone_field = NoField
    /\ contact_before = <<NoField, NoField>>
    /\ contact_runs = 0

\* server.py lines 220-231: apply_progress as batch_apply creates it
StartingProgress == [stage |-> "starting", total |-> 0, error |-> "none"]

\* no batch worker is running
IdleWorker ==
    /\ wpc = "idle"
    /\ session_matches = <<>>
    /\ threshold = 0
    /\ max_applications = 0
    /\ scraper_session = FALSE
    /\ resume_file = FALSE
    /\ qualifying_matches = <<>>
    /\ apply_progress = StartingProgress
    /\ applier = "none"

NoFallbackPage == [contact |-> FALSE, resume |-> FALSE, headings |-> 0,
                   structure |-> FALSE, err |-> "none"]

IdleFallback ==
    /\ fb_page = NoFallbackPage
    /\ fb_completed = {}
    /\ fb_stage = "idle"
    /\ fb_walk = Walk({}, 0)

IdleButton ==
    /\ buttons = <<>>
    /\ button_return = <<>>
    /\ handed = <<>>

NoResponse == [stage |-> "none", results |-> "absent"]

IdleServer ==
    /\ stage = "none"
    /\ session_results = "None"
    /\ login_confirmed = FALSE
    /\ search_pc = "idle"
    /\ status_pc = "idle"
    /\ response = NoResponse
    /\ login_pc = "idle"
    /\ batch_pc = <<>>
    /\ apply_threads = 0
    /\ progress = 0

IdleQuestions ==
    /\ cb_pc = "idle"
    /\ waiting_for_questions = FALSE
    /\ questions_confirmed = FALSE
    /\ elapsed = 0
    /\ poll_seen = FALSE
    /\ confirmed_after_poll = FALSE

IdleAux == IdleFallback /\ IdleButton /\ IdleServer /\ IdleQuestions

IdleUnits == IdleResume /\ IdleContact /\ IdleWorker /\ IdleAux

core_vars == <<classify_vars, form_vars, batch_vars, resume_vars,
               contact_vars, worker_vars>>

IdleCore ==
    /\ IdleClassify
    /\ IdleForm
    /\ IdleBatch
    /\ IdleResume
    /\ IdleContact
    /\ IdleWorker

\* handle_easy_apply_form is entered (line 433)
Init ==
    /\ IdleClassify
    /\ IdleBatch
    /\ IdleUnits
    /\ pc = "modal"
    /\ current_step = 0
    /\ consecutive_errors = 0
    /\ completed_sections = {}
    /\ page_type = "none"
    /\ result = "pending"
    /\ exit_line = 0
    /\ invoked = NoCalls
    /\ indicator_seen = FALSE
    /\ answer = "none"
    /\ displayed = FALSE
    /\ submit_clicked = FALSE
    /\ failed_in_row = 0

Next ==
    \/ ModalAppears
    \/ ModalTimeout
    \/ ModalError
    \/ MaxStepsReached
    \/ AlreadySubmitted
    \/ BeginStep
    \/ Classify
    \/ HandleSection
    \/ HandleUnknown
    \/ NoButton
    \/ ClickNext
    \/ ClickSubmit
    \/ AskManual
    \/ AskSent

Spec == Init /\ [][Next]_vars

(***************************************************************************)
(* detect_current_page_type on one snapshot (specification SpecClassify)   *)
(***************************************************************************)
InitClassify ==
    /\ page \in Pages
    /\ detected = "none"
    /\ IdleForm
    /\ IdleBatch
    /\ IdleUnits

\* lines 125-294
DetectCurrentPageType ==
    /\ detected = "none"
    /\ pc = "idle"
    /\ bpc = "idle"
    /\ detected' = DetectPageType(page)
    /\ UNCHANGED <<page, form_vars, batch_vars, unit_vars>>

NextClassify == DetectCurrentPageType

SpecClassify == InitClassify /\ [][NextClassify]_vars

(***************************************************************************)
(* apply_to_jobs and _apply_to_job (specification SpecBatch)               *)
(*                                                                         *)
(* A candidate is a match reduced to its final_score (0..MaxScore stands   *)
(* for the score scale) and to whether its job has a link.  The form run   *)
(* of a candidate is one step here; its outcomes are the return values of  *)
(* handle_easy_apply_form in specification Spec.                           *)
(***************************************************************************)
Candidates == [score : 0..MaxScore, link : BOOLEAN]

MatchLists == UNION {[1..n -> Candidates] : n \in 0..MaxJobs}

\* what _apply_to_job reads of a loaded job page:
\*   marker    the page source holds an external-application phrase
\*   src_err   reading driver.page_source raises
\*   button    the first displayed button the selectors accept
JobPages == [loaded : {TRUE}, marker : BOOLEAN, src_err : BOOLEAN,
             button : {"easy", "other", "none"}]

FormOutcomes == {"True", "False", "raise"}

\* lines 650-654: the return values a run can still produce after its except
\* clause has absorbed an exception of a prompt or of the questions handler
AbsorbedOutcomes == {"True", "False"}

RECURSIVE InsertDesc(_, _)
\* x is placed behind every element whose score is not smaller (stable)
InsertDesc(s, x) ==
    IF s = <<>> THEN <<x>>
    ELSE IF Head(s).score >= x.score
         THEN <<Head(s)>> \o InsertDesc(Tail(s), x)
         ELSE <<x>> \o s

\* mutation: the list is left in the order given
SortDesc_Unsorted(s) == s

RECURSIVE SortDesc(_)
\* line 725: matches.sort(key=final_score, reverse=True)
SortDesc(s) ==
    IF s = <<>> THEN <<>>
    ELSE InsertDesc(SortDesc(SubSeq(s, 1, Len(s) - 1)), s[Len(s)])

\* lines 45-57
CheckExternalApplication(p) ==
    IF p.src_err THEN FALSE ELSE p.marker

\* mutation: the external-application check is left out
FindApplyButton_NoExternalCheck(p) ==
    IF p.button = "easy" THEN <<TRUE, "easy">>
    ELSE IF p.button = "other" THEN <<TRUE, "external">>
    ELSE <<FALSE, "none">>

\* lines 59-98: <<a button was returned, its type>>
FindApplyButton(p) ==
    IF CheckExternalApplication(p) THEN <<FALSE, "external">>
    ELSE IF p.button = "easy" THEN <<TRUE, "easy">>
    ELSE IF p.button = "other" THEN <<TRUE, "external">>
    ELSE <<FALSE, "none">>

\* mutation: the cap is put on the attempts
CapReached_Attempts == results.attempted >= max_apply

\* mutation: the cap is tested with > instead of >=
CapReached_OffByOne == applied_count > max_apply

\* line 729
CapReached == applied_count >= max_apply

\* mutation: a candidate counted as failed ends the loop over the matches
Tally_FailureEndsBatch(success, app_type) ==
    /\ IF success /\ app_type = "easy"
       THEN /\ applied_count' = applied_count + 1
            /\ results' = [results EXCEPT !.applied = @ + 1]
            /\ outcome' = "applied"
            /\ bpc' = "for"
       ELSE IF app_type = "skipped"
       THEN /\ results' = [results EXCEPT !.skipped = @ + 1]
            /\ outcome' = "skipped"
            /\ bpc' = "for"
            /\ UNCHANGED applied_count
       ELSE /\ results' = [results EXCEPT !.failed = @ + 1]
            /\ outcome' = "failed"
            /\ bpc' = "done"
            /\ UNCHANGED applied_count
    /\ idx' = idx + 1

\* lines 751-766: the result of _apply_to_job is counted
Tally(success, app_type) ==
    /\ IF success /\ app_type = "easy"
       THEN /\ applied_count' = applied_count + 1
            /\ results' = [results EXCEPT !.applied = @ + 1]
            /\ outcome' = "applied"
       ELSE IF app_type = "skipped"
       THEN /\ results' = [results EXCEPT !.skipped = @ + 1]
            /\ outcome' = "skipped"
            /\ UNCHANGED applied_count
       ELSE /\ results' = [results EXCEPT !.failed = @ + 1]
            /\ outcome' = "failed"
            /\ UNCHANGED applied_count
    /\ idx' = idx + 1
    /\ bpc' = "for"

InitBatch ==
    /\ IdleClassify
    /\ IdleForm
    /\ IdleUnits
    /\ bpc = "start"
    /\ matches \in MatchLists
    /\ given = matches
    /\ min_score \in 0..MaxScore
    /\ max_apply \in 0..MaxApply
    /\ results = [attempted |-> 0, applied |-> 0, failed |-> 0,
                  skipped |-> 0, details |-> <<>>]
    /\ applied_count = 0
    /\ idx = 0
    /\ job_page = NoJobPage
    /\ navigated = <<>>
    /\ clicked_apply = FALSE
    /\ form_entered = FALSE
    /\ closed_modal = FALSE
    /\ outcome = "none"
    /\ raised = FALSE
    /\ loop_raised = FALSE

\* lines 716-726
StartBatch ==
    /\ bpc = "start"
    /\ matches' = SortDesc(matches)
    /\ idx' = 1
    /\ bpc' = "for"
    /\ UNCHANGED <<min_score, max_apply, results, applied_count, job_page,
                   navigated, clicked_apply, form_entered, closed_modal,
                   outcome, given>>
    /\ UNCHANGED <<raised, loop_raised>>
    /\ UNCHANGED <<classify_vars, form_vars, unit_vars>>

\* lines 728, 768: the list is exhausted
LoopDone ==
    /\ bpc = "for"
    /\ idx > Len(matches)
    /\ bpc' = "done"
    /\ UNCHANGED <<matches, min_score, max_apply, results, applied_count, idx,
                   job_page, navigated, clicked_apply, form_entered,
                   closed_modal, outcome, given>>
    /\ UNCHANGED <<raised, loop_raised>>
    /\ UNCHANGED <<classify_vars, form_vars, unit_vars>>

\* lines 729-731
MaxReached ==
    /\ bpc = "for"
    /\ idx <= Len(matches)
    /\ CapReached
    /\ bpc' = "done"
    /\ UNCHANGED <<matches, min_score, max_apply, results, applied_count, idx,
                   job_page, navigated, clicked_apply, form_entered,
                   closed_modal, outcome, given>>
    /\ UNCHANGED <<raised, loop_raised>>
    /\ UNCHANGED <<classify_vars, form_vars, unit_vars>>

\* lines 733-738
SkipLowScore ==
    /\ bpc = "for"
    /\ idx <= Len(matches)
    /\ ~CapReached
    /\ matches[idx].score < min_score
    /\ results' = [results EXCEPT !.skipped = @ + 1]
    /\ outcome' = "skipped"
    /\ idx' = idx + 1
    /\ UNCHANGED <<bpc, matches, min_score, max_apply, applied_count, job_page,
                   navigated, clicked_apply, form_entered, closed_modal, given>>
    /\ UNCHANGED <<raised, loop_raised>>
    /\ UNCHANGED <<classify_vars, form_vars, unit_vars>>

\* lines 740-749: the candidate is handed to _apply_to_job
Attempt ==
    /\ bpc = "for"
    /\ idx <= Len(matches)
    /\ ~CapReached
    /\ ~(matches[idx].score < min_score)
    /\ results' = [results EXCEPT !.attempted = @ + 1]
    /\ bpc' = "apply"
    /\ job_page' = NoJobPage
    /\ clicked_apply' = FALSE
    /\ form_entered' = FALSE
    /\ closed_modal' = FALSE
    /\ outcome' = "none"
    /\ UNCHANGED <<matches, min_score, max_apply, applied_count, idx,
                   navigated, given>>
    /\ raised' = FALSE
    /\ loop_raised' = FALSE
    /\ UNCHANGED <<classify_vars, form_vars, unit_vars>>

\* lines 771-772
NoLink ==
    /\ bpc = "apply"
    /\ ~matches[idx].link
    /\ Tally(FALSE, "none")
    /\ UNCHANGED <<matches, min_score, max_apply, job_page, navigated,
                   clicked_apply, form_entered, closed_modal, given>>
    /\ UNCHANGED <<raised, loop_raised>>
    /\ UNCHANGED <<classify_vars, form_vars, unit_vars>>

\* lines 774-781: the page is loaded and ready
Navigate ==
    /\ bpc = "apply"
    /\ matches[idx].link
    /\ navigated' = Append(navigated, matches[idx].score)
    /\ job_page' \in JobPages
    /\ bpc' = "find_apply"
    /\ UNCHANGED <<matches, min_score, max_apply, results, applied_count, idx,
                   clicked_apply, form_entered, closed_modal, outcome, given>>
    /\ UNCHANGED <<raised, loop_raised>>
    /\ UNCHANGED <<classify_vars, form_vars, unit_vars>>

\* lines 776-780, 807-812: driver.get or the readiness wait raises
NavigateFails ==
    /\ bpc = "apply"
    /\ matches[idx].link
    /\ navigated' = Append(navigated, matches[idx].score)
    /\ closed_modal' = TRUE
    /\ Tally(FALSE, "none")
    /\ UNCHANGED <<matches, min_score, max_apply, job_page, clicked_apply,
                   form_entered, given>>
    /\ raised' = TRUE
    /\ UNCHANGED loop_raised
    /\ UNCHANGED <<classify_vars, form_vars, unit_vars>>

\* lines 783-789: no Easy Apply button
NoEasyApply ==
    /\ bpc = "find_apply"
    /\ LET found == FindApplyButton(job_page) IN
         /\ ~found[1] \/ found[2] # "easy"
         /\ IF ~found[1]
            THEN Tally(FALSE, IF found[2] = "external" THEN "skipped" ELSE "none")
            ELSE Tally(FALSE, "skipped")
    /\ UNCHANGED <<matches, min_score, max_apply, job_page, navigated,
                   clicked_apply, form_entered, closed_modal, given>>
    /\ UNCHANGED <<raised, loop_raised>>
    /\ UNCHANGED <<classify_vars, form_vars, unit_vars>>

EasyApplyFound ==
    /\ FindApplyButton(job_page)[1]
    /\ FindApplyButton(job_page)[2] = "easy"

\* lines 791, 807-812: scrolling the button into view raises
ScrollFails ==
    /\ bpc = "find_apply"
    /\ EasyApplyFound
    /\ closed_modal' = TRUE
    /\ Tally(FALSE, "none")
    /\ UNCHANGED <<matches, min_score, max_apply, job_page, navigated,
                   clicked_apply, form_entered, given>>
    /\ raised' = TRUE
    /\ UNCHANGED loop_raised
    /\ UNCHANGED <<classify_vars, form_vars, unit_vars>>

\* lines 794-795: safe_click returns False
ApplyClickFails ==
    /\ bpc = "find_apply"
    /\ EasyApplyFound
    /\ clicked_apply' = TRUE
    /\ Tally(FALSE, "none")
    /\ UNCHANGED <<matches, min_score, max_apply, job_page, navigated,
                   form_entered, closed_modal, given>>
    /\ UNCHANGED <<raised, loop_raised>>
    /\ UNCHANGED <<classify_vars, form_vars, unit_vars>>

\* lines 794-800: the button is clicked and the form is entered
ApplyClicked ==
    /\ bpc = "find_apply"
    /\ EasyApplyFound
    /\ clicked_apply' = TRUE
    /\ form_entered' = TRUE
    /\ bpc' = "form"
    /\ UNCHANGED <<matches, min_score, max_apply, results, applied_count, idx,
                   job_page, navigated, closed_modal, outcome, given>>
    /\ UNCHANGED <<raised, loop_raised>>
    /\ UNCHANGED <<classify_vars, form_vars, unit_vars>>

\* lines 800-805: handle_easy_apply_form returns True
FormSucceeds ==
    /\ bpc = "form"
    /\ "True" \in FormOutcomes
    /\ Tally(TRUE, "easy")
    /\ UNCHANGED <<matches, min_score, max_apply, job_page, navigated,
                   clicked_apply, form_entered, closed_modal, given>>
    /\ loop_raised' \in {absorbed \in BOOLEAN : absorbed => "True" \in AbsorbedOutcomes}
    /\ UNCHANGED raised
    /\ UNCHANGED <<classify_vars, form_vars, unit_vars>>

\* mutation: the modal is left open after a failed form
FormFails_NoClose ==
    /\ bpc = "form"
    /\ "False" \in FormOutcomes
    /\ Tally(FALSE, "easy")
    /\ UNCHANGED <<matches, min_score, max_apply, job_page, navigated,
                   clicked_apply, form_entered, closed_modal, given>>
    /\ loop_raised' \in {absorbed \in BOOLEAN : absorbed => "False" \in AbsorbedOutcomes}
    /\ UNCHANGED raised
    /\ UNCHANGED <<classify_vars, form_vars, unit_vars>>

\* lines 800-805: handle_easy_apply_form returns False
FormFails ==
    /\ bpc = "form"
    /\ "False" \in FormOutcomes
    /\ closed_modal' = TRUE
    /\ Tally(FALSE, "easy")
    /\ UNCHANGED <<matches, min_score, max_apply, job_page, navigated,
                   clicked_apply, form_entered, given>>
    /\ loop_raised' \in {absorbed \in BOOLEAN : absorbed => "False" \in AbsorbedOutcomes}
    /\ UNCHANGED raised
    /\ UNCHANGED <<classify_vars, form_vars, unit_vars>>

\* lines 800, 807-812: handle_easy_apply_form raises
FormRaises ==
    /\ bpc = "form"
    /\ "raise" \in FormOutcomes
    /\ closed_modal' = TRUE
    /\ Tally(FALSE, "none")
    /\ UNCHANGED <<matches, min_score, max_apply, job_page, navigated,
                   clicked_apply, form_entered, given>>
    /\ raised' = TRUE
    /\ UNCHANGED loop_raised
    /\ UNCHANGED <<classify_vars, form_vars, unit_vars>>

NextBatch ==
    \/ StartBatch
    \/ LoopDone
    \/ MaxReached
    \/ SkipLowScore
    \/ Attempt
    \/ NoLink
    \/ Navigate
    \/ NavigateFails
    \/ NoEasyApply
    \/ ScrollFails
    \/ ApplyClickFails
    \/ ApplyClicked
    \/ FormSucceeds
    \/ FormFails
    \/ FormRaises

SpecBatch == InitBatch /\ [][NextBatch]_vars

(***************************************************************************)
(* safe_click and handle_resume_section (specification SpecResume)         *)
(*                                                                         *)
(* One resume step of the modal.  Its radio buttons share one behaviour    *)
(* under the three click strategies; an element of Elements tells, for     *)
(* each strategy in the order of the list of line 101, whether it throws.  *)
(***************************************************************************)
\* lines 101-105
Strategies == <<"click", "script_click", "scroll_script_click">>

Elements == [1..Len(Strategies) -> BOOLEAN]

RECURSIVE TryFrom(_, _)
\* lines 107-114: the strategies from the i-th on
TryFrom(element, i) ==
    IF i > Len(Strategies) THEN [ok |-> FALSE, tried |-> <<>>]
    ELSE IF ~element[i] THEN [ok |-> TRUE, tried |-> <<Strategies[i]>>]
    ELSE LET rest == TryFrom(element, i + 1) IN
         [ok |-> rest.ok, tried |-> <<Strategies[i]>> \o rest.tried]

\* mutation: only the direct click is tried
SafeClick_DirectOnly(element) ==
    [ok |-> ~element[1], tried |-> <<Strategies[1]>>]

\* lines 100-114: <<return value, strategies run>>
SafeClick(element) == TryFrom(element, 1)

\* what handle_resume_section reads of one li of the document list:
\*   other             its text does not hold the file name
\*   stale             reading its text raises
\*   match_noradio     the text matches, it has no radio input
\*   match_selected    the text matches, radio.is_selected() is true
\*   match_unselected  the text matches, radio.is_selected() is false
ItemKinds == {"other", "stale", "match_noradio", "match_selected",
              "match_unselected"}

\* what send_keys does on one file input
FileKinds == {"ok", "throws"}

\* the resume step as the handler reads it:
\*   checked  the checked radio inputs of lines 298-301: none, one whose
\*            outerHTML mentions resume or document, only others, or the
\*            lookup raises
\*   err      the find_elements call that raises (line 330 or line 346)
ResumePages ==
    [checked : {"none", "resume", "other", "err"},
     items : UNION {[1..n -> ItemKinds] : n \in 0..MaxItems},
     radio : Elements,
     files : UNION {[1..n -> FileKinds] : n \in 0..MaxFiles},
     err : {"none", "items", "files"}]

\* lines 296-317
IsResumeAlreadySelected(p) == p.checked = "resume"

RECURSIVE SelectExisting(_, _)
\* lines 333-343: index of the first item whose radio is clicked (0: none)
SelectExisting(items, i) ==
    IF i > Len(items) THEN 0
    ELSE IF items[i] = "match_unselected" THEN i
    ELSE SelectExisting(items, i + 1)

RECURSIVE Upload(_, _)
\* lines 346-355: index of the first file input that takes the path (0: none)
Upload(files, j) ==
    IF j > Len(files) THEN 0
    ELSE IF files[j] = "ok" THEN j
    ELSE Upload(files, j + 1)

NothingDone == [ret |-> "True", clicked |-> 0, click |-> "none",
                tried |-> <<>>, uploaded |-> 0]

\* mutation: the already-selected test of line 323 is left out
HandleResume_NoCheck(p) ==
    IF p.err = "items" THEN NothingDone
    ELSE LET i == SelectExisting(p.items, 1) IN
         IF i > 0
         THEN [NothingDone EXCEPT !.clicked = i,
                                  !.click = IF SafeClick(p.radio).ok
                                            THEN "True" ELSE "False",
                                  !.tried = SafeClick(p.radio).tried]
         ELSE IF p.err = "files" THEN NothingDone
         ELSE [NothingDone EXCEPT !.uploaded = Upload(p.files, 1)]

\* lines 319-362
HandleResume(p) ==
    IF IsResumeAlreadySelected(p) THEN NothingDone
    ELSE IF p.err = "items" THEN NothingDone
    ELSE LET i == SelectExisting(p.items, 1) IN
         IF i > 0
         THEN [NothingDone EXCEPT !.clicked = i,
                                  !.click = IF SafeClick(p.radio).ok
                                            THEN "True" ELSE "False",
                                  !.tried = SafeClick(p.radio).tried]
         ELSE IF p.err = "files" THEN NothingDone
         ELSE [NothingDone EXCEPT !.uploaded = Upload(p.files, 1)]

InitResume ==
    /\ IdleClassify
    /\ IdleForm
    /\ IdleBatch
    /\ IdleContact
    /\ IdleWorker
    /\ IdleAux
    /\ resume_page \in ResumePages
    /\ click_return = "none"
    /\ tried = <<>>
    /\ resume_return = "none"
    /\ clicked = 0
    /\ uploaded = 0

\* lines 100-114: safe_click is called on a radio of the page
SafeClickRadio ==
    /\ resume_page # NoResumePage
    /\ click_return = "none"
    /\ resume_return = "none"
    /\ LET r == SafeClick(resume_page.radio) IN
         /\ click_return' = IF r.ok THEN "True" ELSE "False"
         /\ tried' = r.tried
    /\ UNCHANGED <<resume_page, resume_return, clicked, uploaded>>
    /\ UNCHANGED <<classify_vars, form_vars, batch_vars, contact_vars,
                   worker_vars, aux_vars>>

\* lines 319-362: a successful click leaves the radio selected
HandleResumeSection ==
    /\ resume_page # NoResumePage
    /\ click_return = "none"
    /\ resume_return = "none"
    /\ LET r == HandleResume(resume_page) IN
         /\ resume_return' = r.ret
         /\ clicked' = r.clicked
         /\ click_return' = r.click
         /\ tried' = r.tried
         /\ uploaded' = r.uploaded
         /\ resume_page' =
              IF r.click = "True"
              THEN [resume_page EXCEPT !.items[r.clicked] = "match_selected"]
              ELSE resume_page
    /\ UNCHANGED <<classify_vars, form_vars, batch_vars, contact_vars,
                   worker_vars, aux_vars>>

NextResume ==
    \/ SafeClickRadio
    \/ HandleResumeSection

SpecResume == InitResume /\ [][NextResume]_vars

(***************************************************************************)
(* fill_contact_info (specification SpecContact)                           *)
(*                                                                         *)
(* The value of an input is the sequence of the texts typed into it, so    *)
(* that typing into a field that is not empty shows.                       *)
(***************************************************************************)
\* resume_data['email'] as the parser delivers it
Emails == {"", "me@mail"}

\* resume_data['phone'] as the parser delivers it
RawPhones == {"", "+1 555", "n/a"}

\* lines 30-31: the digits of the phone number
Digits(raw) ==
    IF raw = "+1 555" THEN "1555" ELSE ""

\* what the handler reads of the first input of a type:
\*   absent  find_element raises NoSuchElementException
\*   stale   is_displayed raises
\*   hidden  is_displayed is false
\*   shown   displayed and editable
\*   locked  displayed, clear and send_keys raise
FieldStates == {"stale", "hidden", "shown", "locked"}

EmailFields == {NoField} \cup
    [state : FieldStates, value : {<<>>, <<"old@mail">>}]

PhoneFields == {NoField} \cup
    [state : FieldStates, value : {<<>>, <<"0000">>}]

Displayed(field) == field.state \in {"shown", "locked"}

\* WebElement.clear
Clear(field) == [field EXCEPT !.value = <<>>]

\* WebElement.send_keys: the text is typed behind what is there
SendKeys(field, keys) == [field EXCEPT !.value = @ \o <<keys>>]

\* mutation: the field is typed into whether it is empty or not
FillField_NoEmptyTest(own, field) ==
    IF own = "" THEN field
    ELSE IF field.state \in {"absent", "stale"} THEN field
    ELSE IF field.state = "hidden" THEN field
    ELSE IF field.state = "locked" THEN field
    ELSE SendKeys(field, own)

\* lines 370-381 (email) and 383-394 (phone): the field after the block
FillField(own, field) ==
    IF own = "" THEN field
    ELSE IF field.state \in {"absent", "stale"} THEN field
    ELSE IF field.state = "hidden" THEN field
    ELSE IF field.value # <<>> THEN field
    ELSE IF field.state = "locked" THEN field
    ELSE SendKeys(Clear(field), own)

InitContact ==
    /\ IdleClassify
    /\ IdleForm
    /\ IdleBatch
    /\ IdleResume
    /\ IdleWorker
    /\ IdleAux
    /\ email \in Emails
    /\ phone \in {Digits(raw) : raw \in RawPhones}
    /\ email_field \in EmailFields
    /\ phone_field \in PhoneFields
    /\ contact_before = <<email_field, phone_field>>
    /\ contact_runs = 0

\* lines 364-402: one call of the handler on the page
FillContactInfo ==
    /\ contact_runs < MaxRuns
    /\ wpc = "idle"
    /\ resume_page = NoResumePage
    /\ pc = "idle"
    /\ bpc = "idle"
    /\ contact_before' = <<email_field, phone_field>>
    /\ email_field' = FillField(email, email_field)
    /\ phone_field' = FillField(phone, phone_field)
    /\ contact_runs' = contact_runs + 1
    /\ UNCHANGED <<email, phone>>
    /\ UNCHANGED <<classify_vars, form_vars, batch_vars, resume_vars,
                   worker_vars, aux_vars>>

NextContact == FillContactInfo

SpecContact == InitContact /\ [][NextContact]_vars

(***************************************************************************)
(* _apply_batch_jobs of server.py up to the construction of the applier    *)
(* (specification SpecWorker)                                              *)
(*                                                                         *)
(* A call with a keyword argument that the callee does not declare raises  *)
(* TypeError before the callee's body runs.  The loop over the qualifying  *)
(* matches (server.py lines 475-531) starts from wpc = "loop".             *)
(***************************************************************************)
\* job_applier.py line 17: the parameters of LinkedInJobApplier.__init__
InitParameters == {"session", "resume_data", "resume_path", "max_apply",
                   "min_score"}

\* server.py lines 462-469: the keywords of the call JobApplier(...)
CallKeywords == {"session", "resume_data", "resume_path", "max_apply",
                 "min_score", "questions_callback"}

\* the call binds: every keyword is a declared parameter
ConstructorAccepts(keywords) == keywords \subseteq InitParameters

\* server.py lines 397-400
QualifyingMatches(ms, th, cap) ==
    LET kept == SelectSeq(ms, LAMBDA m : m >= th) IN
    SubSeq(kept, 1, IF cap < Len(kept) THEN cap ELSE Len(kept))

InitWorker ==
    /\ IdleClassify
    /\ IdleForm
    /\ IdleBatch
    /\ IdleResume
    /\ IdleContact
    /\ IdleAux
    /\ wpc = "start"
    /\ session_matches \in UNION {[1..n -> 0..MaxScore] : n \in 0..MaxJobs}
    /\ threshold \in 0..MaxScore
    /\ max_applications \in 0..MaxApply
    /\ scraper_session \in BOOLEAN
    /\ resume_file \in BOOLEAN
    /\ qualifying_matches = <<>>
    /\ apply_progress = StartingProgress
    /\ applier = "none"

\* server.py lines 397-403
FilterMatches ==
    /\ wpc = "start"
    /\ qualifying_matches' =
          QualifyingMatches(session_matches, threshold, max_applications)
    /\ apply_progress' =
          [apply_progress EXCEPT !.total = Len(qualifying_matches'),
                                 !.stage = "applying"]
    /\ wpc' = "checks"
    /\ UNCHANGED <<session_matches, threshold, max_applications,
                   scraper_session, resume_file, applier>>
    /\ UNCHANGED <<classify_vars, form_vars, batch_vars, resume_vars,
                   contact_vars, aux_vars>>

\* server.py lines 407-410
BrowserExpired ==
    /\ wpc = "checks"
    /\ ~scraper_session
    /\ apply_progress' = [apply_progress EXCEPT !.stage = "error",
                                 !.error = "Browser session expired"]
    /\ wpc' = "done"
    /\ UNCHANGED <<session_matches, threshold, max_applications,
                   scraper_session, resume_file, qualifying_matches, applier>>
    /\ UNCHANGED <<classify_vars, form_vars, batch_vars, resume_vars,
                   contact_vars, aux_vars>>

\* server.py lines 413-417
ResumeMissing ==
    /\ wpc = "checks"
    /\ scraper_session
    /\ ~resume_file
    /\ apply_progress' = [apply_progress EXCEPT !.stage = "error",
                                 !.error = "Resume file not found"]
    /\ wpc' = "done"
    /\ UNCHANGED <<session_matches, threshold, max_applications,
                   scraper_session, resume_file, qualifying_matches, applier>>
    /\ UNCHANGED <<classify_vars, form_vars, batch_vars, resume_vars,
                   contact_vars, aux_vars>>

\* server.py lines 462-469 and 543-547: the applier is constructed, or the
\* call raises and the handler of the worker records the error
ConstructApplier ==
    /\ wpc = "checks"
    /\ scraper_session
    /\ resume_file
    /\ IF ConstructorAccepts(CallKeywords)
       THEN /\ applier' = "constructed"
            /\ wpc' = "loop"
            /\ UNCHANGED apply_progress
       ELSE /\ apply_progress' = [apply_progress EXCEPT !.stage = "error",
                                        !.error = "TypeError"]
            /\ wpc' = "done"
            /\ UNCHANGED applier
    /\ UNCHANGED <<session_matches, threshold, max_applications,
                   scraper_session, resume_file, qualifying_matches>>
    /\ UNCHANGED <<classify_vars, form_vars, batch_vars, resume_vars,
                   contact_vars, aux_vars>>

NextWorker ==
    \/ FilterMatches
    \/ BrowserExpired
    \/ ResumeMissing
    \/ ConstructApplier

SpecWorker == InitWorker /\ [][NextWorker]_vars

(***************************************************************************)
(* find_and_click_next_button on one page (specification SpecButton)       *)
(*                                                                         *)
(* For each selector of button_selectors the page gives one of:            *)
(*   timeout      no clickable match within the wait: until() raises       *)
(*   not_ready    a match that is_displayed() or is_enabled() denies       *)
(*   unclickable  a match on which every strategy of safe_click raises     *)
(*   clickable    a match that the script click of safe_click clicks       *)
(***************************************************************************)
\* lines 661-678: the selectors in list order, with their is_submit flag
ButtonSelectors ==
    <<[label |-> "submit", is_submit |-> TRUE],
      [label |-> "submit", is_submit |-> TRUE],
      [label |-> "submit", is_submit |-> TRUE],
      [label |-> "review", is_submit |-> FALSE],
      [label |-> "review", is_submit |-> FALSE],
      [label |-> "next", is_submit |-> FALSE],
      [label |-> "next", is_submit |-> FALSE],
      [label |-> "primary", is_submit |-> FALSE]>>

CandidateKinds == {"timeout", "not_ready", "unclickable", "clickable"}

\* the element handed to safe_click: TRUE where the strategy raises
ElementOf(kind) ==
    IF kind = "clickable" THEN <<TRUE, FALSE, FALSE>>
    ELSE <<TRUE, TRUE, TRUE>>

\* lines 680-693: the loop over the selectors from the i-th on
RECURSIVE ClickFrom(_, _, _)
ClickFrom(cands, i, given_to_click) ==
    IF i > Len(ButtonSelectors)
        THEN [ret |-> <<FALSE, FALSE>>, handed |-> given_to_click]
    ELSE IF cands[i] \in {"timeout", "not_ready"}
        THEN ClickFrom(cands, i + 1, given_to_click)
    ELSE IF SafeClick(ElementOf(cands[i])).ok
        THEN [ret |-> <<TRUE, ButtonSelectors[i].is_submit>>,
              handed |-> Append(given_to_click, i)]
    ELSE ClickFrom(cands, i + 1, Append(given_to_click, i))

\* mutation: a button that cannot be clicked ends the search
FindAndClick_StopsAtLocated(cands) ==
    LET located == {i \in 1..Len(cands) :
                        cands[i] \in {"unclickable", "clickable"}}
        first == CHOOSE i \in located : \A j \in located : i <= j
    IN  IF located = {} THEN [ret |-> <<FALSE, FALSE>>, handed |-> <<>>]
        ELSE IF cands[first] = "clickable"
             THEN [ret |-> <<TRUE, ButtonSelectors[first].is_submit>>,
                   handed |-> <<first>>]
        ELSE [ret |-> <<FALSE, FALSE>>, handed |-> <<first>>]

\* lines 659-696
FindAndClick(cands) == ClickFrom(cands, 1, <<>>)

InitButton ==
    /\ IdleCore
    /\ IdleFallback
    /\ IdleServer
    /\ IdleQuestions
    /\ buttons \in [1..Len(ButtonSelectors) -> CandidateKinds]
    /\ button_return = <<>>
    /\ handed = <<>>

\* lines 659-696
FindAndClickNextButton ==
    /\ button_return = <<>>
    /\ buttons # <<>>
    /\ LET r == FindAndClick(buttons) IN
         /\ button_return' = r.ret
         /\ handed' = r.handed
    /\ UNCHANGED <<buttons, core_vars, fallback_vars, server_vars,
                   questions_vars>>

NextButton == FindAndClickNextButton

SpecButton == InitButton /\ [][NextButton]_vars

(***************************************************************************)
(* One session of the server (specification SpecServer)                    *)
(*                                                                         *)
(* The thread of _process_job_search runs next to the request handlers     *)
(* get_job_status, confirm_login and batch_apply; Flask serves each request *)
(* on a thread of its own and nothing in server.py takes a lock, so every  *)
(* read and every assignment of a job_session attribute is a step of its   *)
(* own.                                                                    *)
(***************************************************************************)
Requests == 1..MaxRequests

\* lines 54-66, 101-103, 119-125: the session is created and the search
\* thread is started
InitServer ==
    /\ IdleCore
    /\ IdleFallback
    /\ IdleButton
    /\ IdleQuestions
    /\ stage = "initializing"
    /\ session_results = "None"
    /\ login_confirmed = FALSE
    /\ search_pc = "start"
    /\ status_pc = "idle"
    /\ response = NoResponse
    /\ login_pc = "idle"
    /\ batch_pc = [r \in Requests |-> "idle"]
    /\ apply_threads = 0
    /\ progress = 0

\* lines 280-293
StartSearch ==
    /\ search_pc = "start"
    /\ stage' = "initializing"
    /\ search_pc' = "driver"
    /\ UNCHANGED <<session_results, login_confirmed, status_pc, response,
                   login_pc, batch_pc, apply_threads>>
    /\ progress' = 10
    /\ UNCHANGED <<core_vars, fallback_vars, button_vars, questions_vars>>

\* lines 295-307
DriverReady ==
    /\ search_pc = "driver"
    /\ stage' = "waiting_login"
    /\ search_pc' = "wait"
    /\ UNCHANGED <<session_results, login_confirmed, status_pc, response,
                   login_pc, batch_pc, apply_threads>>
    /\ progress' = 20
    /\ UNCHANGED <<core_vars, fallback_vars, button_vars, questions_vars>>

\* mutation: the wait loop does not look at the flag
WaitLogin_NoFlag ==
    /\ search_pc = "wait"
    /\ \/ search_pc' = "login"
       \/ ~login_confirmed /\ stage = "error" /\ search_pc' = "done"
    /\ UNCHANGED <<stage, session_results, login_confirmed, status_pc,
                   response, login_pc, batch_pc, apply_threads>>
    /\ UNCHANGED progress
    /\ UNCHANGED <<core_vars, fallback_vars, button_vars, questions_vars>>

\* lines 309-312: the wait loop ends when the flag is set, or returns when
\* the stage reads 'error'
WaitLogin ==
    /\ search_pc = "wait"
    /\ \/ login_confirmed /\ search_pc' = "login"
       \/ ~login_confirmed /\ stage = "error" /\ search_pc' = "done"
    /\ UNCHANGED <<stage, session_results, login_confirmed, status_pc,
                   response, login_pc, batch_pc, apply_threads>>
    /\ UNCHANGED progress
    /\ UNCHANGED <<core_vars, fallback_vars, button_vars, questions_vars>>

\* lines 314-323
BeginScrape ==
    /\ search_pc = "login"
    /\ stage' = "scraping"
    /\ search_pc' = "search"
    /\ UNCHANGED <<session_results, login_confirmed, status_pc, response,
                   login_pc, batch_pc, apply_threads>>
    /\ progress' = 40
    /\ UNCHANGED <<core_vars, fallback_vars, button_vars, questions_vars>>

\* lines 325-335: search_jobs found nothing
NoJobsStage ==
    /\ search_pc = "search"
    /\ stage' = "complete"
    /\ search_pc' = "no_jobs"
    /\ UNCHANGED <<session_results, login_confirmed, status_pc, response,
                   login_pc, batch_pc, apply_threads>>
    /\ progress' = 100
    /\ UNCHANGED <<core_vars, fallback_vars, button_vars, questions_vars>>

\* lines 336-340
NoJobsResults ==
    /\ search_pc = "no_jobs"
    /\ session_results' = "no_jobs"
    /\ search_pc' = "cleanup"
    /\ UNCHANGED <<stage, login_confirmed, status_pc, response, login_pc,
                   batch_pc, apply_threads>>
    /\ UNCHANGED progress
    /\ UNCHANGED <<core_vars, fallback_vars, button_vars, questions_vars>>

\* lines 341-342
Cleanup ==
    /\ search_pc = "cleanup"
    /\ search_pc' = "done"
    /\ UNCHANGED <<stage, session_results, login_confirmed, status_pc,
                   response, login_pc, batch_pc, apply_threads>>
    /\ UNCHANGED progress
    /\ UNCHANGED <<core_vars, fallback_vars, button_vars, questions_vars>>

\* lines 345-347: search_jobs found jobs
BeginMatching ==
    /\ search_pc = "search"
    /\ stage' = "matching"
    /\ search_pc' = "match"
    /\ UNCHANGED <<session_results, login_confirmed, status_pc, response,
                   login_pc, batch_pc, apply_threads>>
    /\ progress' = 60
    /\ UNCHANGED <<core_vars, fallback_vars, button_vars, questions_vars>>

\* lines 349-366
MatchesComplete ==
    /\ search_pc = "match"
    /\ stage' = "complete"
    /\ search_pc' = "results"
    /\ UNCHANGED <<session_results, login_confirmed, status_pc, response,
                   login_pc, batch_pc, apply_threads>>
    /\ progress' = 100
    /\ UNCHANGED <<core_vars, fallback_vars, button_vars, questions_vars>>

\* lines 367-373
PublishResults ==
    /\ search_pc = "results"
    /\ session_results' = "success"
    /\ search_pc' = "done"
    /\ UNCHANGED <<stage, login_confirmed, status_pc, response, login_pc,
                   batch_pc, apply_threads>>
    /\ UNCHANGED progress
    /\ UNCHANGED <<core_vars, fallback_vars, button_vars, questions_vars>>

\* lines 377-388: a call of the thread raises (the driver, the login, the
\* search, the matcher, the formatting of the results, the cleanup)
SearchFails ==
    /\ search_pc \in {"driver", "login", "search", "match", "results",
                      "cleanup"}
    /\ stage' = "error"
    /\ search_pc' = "done"
    /\ UNCHANGED <<session_results, login_confirmed, status_pc, response,
                   login_pc, batch_pc, apply_threads>>
    /\ progress' = 0
    /\ UNCHANGED <<core_vars, fallback_vars, button_vars, questions_vars>>

\* lines 142-156: the response takes the stage
StatusReadStage ==
    /\ status_pc \in {"idle", "responded"}
    /\ response' = [stage |-> stage, results |-> "absent"]
    /\ status_pc' = "test"
    /\ UNCHANGED <<stage, session_results, login_confirmed, search_pc,
                   login_pc, batch_pc, apply_threads>>
    /\ UNCHANGED progress
    /\ UNCHANGED <<core_vars, fallback_vars, button_vars, questions_vars>>

\* line 159: the stage is read again for the test
StatusTestStage ==
    /\ status_pc = "test"
    /\ status_pc' = IF stage = "complete" THEN "results" ELSE "responded"
    /\ UNCHANGED <<stage, session_results, login_confirmed, search_pc,
                   response, login_pc, batch_pc, apply_threads>>
    /\ UNCHANGED progress
    /\ UNCHANGED <<core_vars, fallback_vars, button_vars, questions_vars>>

\* lines 160-162
StatusReadResults ==
    /\ status_pc = "results"
    /\ response' = [response EXCEPT !.results = session_results]
    /\ status_pc' = "responded"
    /\ UNCHANGED <<stage, session_results, login_confirmed, search_pc,
                   login_pc, batch_pc, apply_threads>>
    /\ UNCHANGED progress
    /\ UNCHANGED <<core_vars, fallback_vars, button_vars, questions_vars>>

\* lines 165-173: confirm_login tests the stage
LoginTestStage ==
    /\ login_pc \in {"idle", "rejected"}
    /\ login_pc' = IF stage = "waiting_login" THEN "flag" ELSE "rejected"
    /\ login_pc' # login_pc
    /\ UNCHANGED <<stage, session_results, login_confirmed, search_pc,
                   status_pc, response, batch_pc, apply_threads>>
    /\ UNCHANGED progress
    /\ UNCHANGED <<core_vars, fallback_vars, button_vars, questions_vars>>

\* line 175
LoginSetFlag ==
    /\ login_pc = "flag"
    /\ login_confirmed' = TRUE
    /\ login_pc' = "stage"
    /\ UNCHANGED <<stage, session_results, search_pc, status_pc, response,
                   batch_pc, apply_threads>>
    /\ UNCHANGED progress
    /\ UNCHANGED <<core_vars, fallback_vars, button_vars, questions_vars>>

\* lines 176-180
LoginSetStage ==
    /\ login_pc = "stage"
    /\ stage' = "scraping"
    /\ login_pc' = "done"
    /\ UNCHANGED <<session_results, login_confirmed, search_pc, status_pc,
                   response, batch_pc, apply_threads>>
    /\ progress' = 30
    /\ UNCHANGED <<core_vars, fallback_vars, button_vars, questions_vars>>

\* lines 203-211: batch_apply tests the stage
BatchTestStage(r) ==
    /\ batch_pc[r] = "idle"
    /\ batch_pc' = [batch_pc EXCEPT ![r] = IF stage = "complete"
                                            THEN "json" ELSE "rejected"]
    /\ UNCHANGED <<stage, session_results, login_confirmed, search_pc,
                   status_pc, response, login_pc, apply_threads>>
    /\ UNCHANGED progress
    /\ UNCHANGED <<core_vars, fallback_vars, button_vars, questions_vars>>

\* lines 213-216, 244-247: the body of the request is not a JSON object
BatchBadRequest(r) ==
    /\ batch_pc[r] = "json"
    /\ batch_pc' = [batch_pc EXCEPT ![r] = "failed"]
    /\ UNCHANGED <<stage, session_results, login_confirmed, search_pc,
                   status_pc, response, login_pc, apply_threads>>
    /\ UNCHANGED progress
    /\ UNCHANGED <<core_vars, fallback_vars, button_vars, questions_vars>>

\* lines 213-219
BatchSetStage(r) ==
    /\ batch_pc[r] = "json"
    /\ stage' = "applying"
    /\ batch_pc' = [batch_pc EXCEPT ![r] = "start"]
    /\ UNCHANGED <<session_results, login_confirmed, search_pc, status_pc,
                   response, login_pc, apply_threads>>
    /\ UNCHANGED progress
    /\ UNCHANGED <<core_vars, fallback_vars, button_vars, questions_vars>>

\* lines 220-242: apply_progress is initialised and the thread is started
BatchStartThread(r) ==
    /\ batch_pc[r] = "start"
    /\ apply_threads' = apply_threads + 1
    /\ batch_pc' = [batch_pc EXCEPT ![r] = "started"]
    /\ UNCHANGED <<stage, session_results, login_confirmed, search_pc,
                   status_pc, response, login_pc>>
    /\ UNCHANGED progress
    /\ UNCHANGED <<core_vars, fallback_vars, button_vars, questions_vars>>

NextServer ==
    \/ StartSearch
    \/ DriverReady
    \/ WaitLogin
    \/ BeginScrape
    \/ NoJobsStage
    \/ NoJobsResults
    \/ Cleanup
    \/ BeginMatching
    \/ MatchesComplete
    \/ PublishResults
    \/ SearchFails
    \/ StatusReadStage
    \/ StatusTestStage
    \/ StatusReadResults
    \/ LoginTestStage
    \/ LoginSetFlag
    \/ LoginSetStage
    \/ \E r \in Requests : BatchTestStage(r)
    \/ \E r \in Requests : BatchBadRequest(r)
    \/ \E r \in Requests : BatchSetStage(r)
    \/ \E r \in Requests : BatchStartThread(r)

SpecServer == InitServer /\ [][NextServer]_vars

(***************************************************************************)
(* One call of questions_callback (specification SpecQuestions)            *)
(*                                                                         *)
(* The callback runs on the batch worker's thread next to the request      *)
(* handlers get_apply_status and confirm_questions; no lock is taken, so    *)
(* each assignment of the callback is a step of its own.                   *)
(***************************************************************************)
\* line 422: the callback is called; questions_confirmed is what an earlier
\* job left
InitQuestions ==
    /\ IdleCore
    /\ IdleFallback
    /\ IdleButton
    /\ IdleServer
    /\ cb_pc = "start"
    /\ waiting_for_questions = FALSE
    /\ questions_confirmed \in BOOLEAN
    /\ elapsed = 0
    /\ poll_seen = FALSE
    /\ confirmed_after_poll = FALSE

\* lines 424-432
CallbackSetWaiting ==
    /\ cb_pc = "start"
    /\ waiting_for_questions' = TRUE
    /\ cb_pc' = "reset"
    /\ UNCHANGED <<questions_confirmed, elapsed, poll_seen,
                   confirmed_after_poll>>
    /\ UNCHANGED <<core_vars, fallback_vars, button_vars, server_vars>>

\* lines 433-443
CallbackResetConfirmed ==
    /\ cb_pc = "reset"
    /\ questions_confirmed' = FALSE
    /\ elapsed' = 0
    /\ cb_pc' = "wait"
    /\ UNCHANGED <<waiting_for_questions, poll_seen, confirmed_after_poll>>
    /\ UNCHANGED <<core_vars, fallback_vars, button_vars, server_vars>>

\* lines 445-449: the loop condition holds and one unit is slept
CallbackWait ==
    /\ cb_pc = "wait"
    /\ ~questions_confirmed /\ elapsed < timeout
    /\ elapsed' = elapsed + 1
    /\ UNCHANGED <<cb_pc, waiting_for_questions, questions_confirmed,
                   poll_seen, confirmed_after_poll>>
    /\ UNCHANGED <<core_vars, fallback_vars, button_vars, server_vars>>

\* lines 445, 451-454: the loop condition fails
CallbackLeave ==
    /\ cb_pc = "wait"
    /\ ~(~questions_confirmed /\ elapsed < timeout)
    /\ cb_pc' = "clear"
    /\ UNCHANGED <<waiting_for_questions, questions_confirmed, elapsed,
                   poll_seen, confirmed_after_poll>>
    /\ UNCHANGED <<core_vars, fallback_vars, button_vars, server_vars>>

\* mutation: the flag is left as it is when the callback returns
CallbackClear_KeepsFlag ==
    /\ cb_pc = "clear"
    /\ cb_pc' = "done"
    /\ UNCHANGED <<waiting_for_questions, questions_confirmed, elapsed,
                   poll_seen, confirmed_after_poll>>
    /\ UNCHANGED <<core_vars, fallback_vars, button_vars, server_vars>>

\* lines 456-460
CallbackClear ==
    /\ cb_pc = "clear"
    /\ waiting_for_questions' = FALSE
    /\ cb_pc' = "done"
    /\ UNCHANGED <<questions_confirmed, elapsed, poll_seen,
                   confirmed_after_poll>>
    /\ UNCHANGED <<core_vars, fallback_vars, button_vars, server_vars>>

\* lines 249-260: a get_apply_status response carries the flag
ApplyStatus ==
    /\ cb_pc \notin {"idle", "done"}
    /\ poll_seen' = (poll_seen \/ waiting_for_questions)
    /\ UNCHANGED <<cb_pc, waiting_for_questions, questions_confirmed, elapsed,
                   confirmed_after_poll>>
    /\ UNCHANGED <<core_vars, fallback_vars, button_vars, server_vars>>

\* lines 182-200
ConfirmQuestions ==
    /\ cb_pc \notin {"idle", "done"}
    /\ questions_confirmed' = TRUE
    /\ confirmed_after_poll' =
          (confirmed_after_poll \/ (poll_seen /\ elapsed < timeout))
    /\ UNCHANGED <<cb_pc, waiting_for_questions, elapsed, poll_seen>>
    /\ UNCHANGED <<core_vars, fallback_vars, button_vars, server_vars>>

NextQuestions ==
    \/ CallbackSetWaiting
    \/ CallbackResetConfirmed
    \/ CallbackWait
    \/ CallbackLeave
    \/ CallbackClear
    \/ ApplyStatus
    \/ ConfirmQuestions

SpecQuestions == InitQuestions /\ [][NextQuestions]_vars

(***************************************************************************)
(* The fallback branch of one 'unknown' step, part by part                 *)
(* (specification SpecFallback)                                            *)
(***************************************************************************)
\* line 491: the branch is entered with some completed_sections, on some
\* page, with some number of prompts that are going to raise
InitFallback ==
    /\ IdleCore
    /\ IdleButton
    /\ IdleServer
    /\ IdleQuestions
    /\ fb_page \in FallbackPages
    /\ fb_stage = "contact"
    /\ fb_completed \in SUBSET Sections
    /\ \E fails \in 0..(MaxHeadings + 2) : fb_walk = Walk(fb_completed, fails)

\* lines 498-520
TryContact ==
    /\ fb_stage = "contact"
    /\ fb_walk' = FallbackContact(fb_walk, fb_page)
    /\ fb_stage' = "resume"
    /\ UNCHANGED <<fb_page, fb_completed, core_vars, button_vars, server_vars,
                   questions_vars>>

\* lines 522-540
TryResume ==
    /\ fb_stage = "resume"
    /\ fb_walk' = FallbackResume(fb_walk, fb_page)
    /\ fb_stage' = "heading"
    /\ UNCHANGED <<fb_page, fb_completed, core_vars, button_vars, server_vars,
                   questions_vars>>

\* lines 543-560
TryHeading ==
    /\ fb_stage = "heading"
    /\ fb_walk' = FallbackHeading(fb_walk, fb_page)
    /\ fb_stage' = "structure"
    /\ UNCHANGED <<fb_page, fb_completed, core_vars, button_vars, server_vars,
                   questions_vars>>

\* lines 562-598
TryStructure ==
    /\ fb_stage = "structure"
    /\ fb_walk' = FallbackStructure(fb_walk, fb_page)
    /\ fb_stage' = "last"
    /\ UNCHANGED <<fb_page, fb_completed, core_vars, button_vars, server_vars,
                   questions_vars>>

\* lines 600-616
TryLastResort ==
    /\ fb_stage = "last"
    /\ fb_walk' = LastResort(fb_walk)
    /\ fb_stage' = "done"
    /\ UNCHANGED <<fb_page, fb_completed, core_vars, button_vars, server_vars,
                   questions_vars>>

NextFallback ==
    \/ TryContact
    \/ TryResume
    \/ TryHeading
    \/ TryStructure
    \/ TryLastResort

SpecFallback == InitFallback /\ [][NextFallback]_vars

(***************************************************************************)
(* Properties of the step loop (specification Spec)                        *)
(***************************************************************************)

\* The return values of handle_easy_apply_form are the form outcomes that
\* SpecBatch lets _apply_to_job receive (an invariant of Spec).
FormReturnsCovered == result \in FormOutcomes \cup {"pending"}

\* a prompt or the questions handler raised inside the loop of this run
LoopRaised ==
    \/ answer = "raise"
    \/ invoked["questions"] >
          (IF "questions" \in completed_sections THEN 1 ELSE 0)

\* After an absorbed exception the run returns a value of AbsorbedOutcomes
\* (an invariant of Spec); True is among them (AbsorbedSuccess is reachable).
AbsorbedCovered ==
    (LoopRaised /\ pc = "done") => result \in AbsorbedOutcomes

AbsorbedSuccess == LoopRaised /\ result = "True"

\* C1: within one run of handle_easy_apply_form the contact handler, the
\* resume handler and the questions handler are each invoked at most once.
C1_HandlersAtMostOnce ==
    \A sec \in Sections : invoked[sec] <= 1

\* Progress of a run: the steps begun, then the position inside the step.
\* pc = "loop" is the end of step current_step (or the start of the first).
Phase ==
    CASE pc = "classify" -> 0
      [] pc = "handle" -> 1
      [] pc = "click" -> 2
      [] pc \in {"ask_manual", "ask_sent"} -> 3
      [] OTHER -> 4
Progress == 5 * current_step + Phase

\* C2: the step loop ends after at most max_steps iterations, whatever the
\* classifier, the handlers, the button search and the prompts do: the number
\* of steps begun never exceeds max_steps, and every transition inside the
\* loop either leaves the loop or moves strictly forward.
C2_LoopBounded ==
    /\ [](current_step <= max_steps)
    /\ [][pc \notin {"modal", "done", "idle"}
            => (pc' = "done" \/ Progress' > Progress)]_vars

C2_Witness ==
    /\ pc = "done"
    /\ exit_line = 657
    /\ current_step = max_steps

\* the run ended on the step budget or on the consecutive-error budget
BudgetExhausted ==
    /\ pc = "done"
    /\ \/ exit_line = 657
       \/ consecutive_errors >= MaxConsecutiveErrors

\* C3 (as claimed): a loop that ends on the step budget or on the
\* consecutive-error budget reports failure and raises nothing.
C3_BudgetMeansFailure ==
    BudgetExhausted => result = "False"

\* C3 (amended): a loop that ends on a budget raises nothing; it reports
\* failure, except that when the error budget is used up by missing buttons
\* the operator is asked "Did you submit manually?" and the answer 'y' makes
\* the run report success.
C3_BudgetAmended ==
    BudgetExhausted =>
        /\ result \in {"True", "False"}
        /\ (result = "True") <=> (exit_line = 629 /\ answer = "y")

C3_Witness ==
    /\ BudgetExhausted
    /\ exit_line = 629
    /\ result = "True"

\* C4: handle_easy_apply_form returns True only if the success indicator was
\* seen on the page or the operator answered 'y' to a prompt.
C4_SuccessIsObserved ==
    result = "True" => (indicator_seen \/ answer = "y")

C4_Witness ==
    /\ result = "True"
    /\ exit_line = 646
    /\ ~indicator_seen
    /\ answer = "y"

(***************************************************************************)
(* Properties of the classifier (specification SpecClassify)               *)
(***************************************************************************)
QuestionsSignal(p) ==
    HeadingSignal(p) \/ TextSignal(p) \/ StructureSignal(p) \/ InputsSignal(p)

\* C5: the checks are applied in the order contact > resume > questions >
\* review and the first match wins.  A page on which the classifier reads a
\* displayed email or tel input is classified contact whatever else it
\* shows; a page on which it reads no such input and reads a displayed file
\* input or document-upload container is classified resume; review is
\* returned only when no contact, resume or questions signal matched.
\* (A read that raises shows nothing; the result is then unknown.)
C5_PriorityOrder ==
    detected # "none" =>
        /\ (ContactSignal(page) /\ page.err # "contact")
              => detected = "contact"
        /\ (~ContactSignal(page) /\ ResumeSignal(page)
               /\ page.err \notin {"contact", "resume"})
              => detected = "resume"
        /\ detected = "review"
              => /\ ~ContactSignal(page)
                 /\ ~ResumeSignal(page)
                 /\ ~QuestionsSignal(page)
                 /\ ReviewSignal(page)

C5_Witness ==
    /\ detected = "contact"
    /\ page.email
    /\ page.file
    /\ page.heading
    /\ page.submit

\* an unguarded DOM access of the classification raised: the access marked
\* by err was executed (no earlier check returned)
UnguardedRaised(p) ==
    \/ p.err = "contact"
    \/ /\ ~ContactSignal(p)
       /\ \/ p.err = "resume"
          \/ /\ ~ResumeSignal(p)
             /\ \/ p.err = "heading"
                \/ /\ ~HeadingSignal(p)
                   /\ ~TextSignal(p)
                   /\ \/ p.err = "structure"
                      \/ /\ p.err = "labels"
                         /\ (p.radio_groups >= MinRadioGroups \/ p.selects)
                      \/ /\ ~StructureSignal(p)
                         /\ \/ p.err = "inputs"
                            \/ /\ ~InputsSignal(p)
                               /\ p.err = "review"

\* the guard of the heading loop caught an error: the loop was executed and
\* is_displayed of a node raised
GuardedRaised(p) ==
    /\ p.heading_err
    /\ ~ContactSignal(p)
    /\ ~ResumeSignal(p)
    /\ p.err \notin {"contact", "resume", "heading"}

\* C19: an exception raised by any DOM access during classification is
\* caught inside detect_current_page_type and yields unknown; the classifier
\* never raises to the step loop.
C19_AnyErrorYieldsUnknown ==
    detected # "none" =>
        /\ detected \in PageTypes
        /\ (UnguardedRaised(page) \/ GuardedRaised(page))
              => detected = "unknown"

\* C19 (amended): the classifier never raises to the step loop; an exception
\* of a DOM access outside the per-element guards yields unknown, while one
\* caught by a per-element guard only skips that element and the
\* classification goes on as if the element were not there.
C19_ErrorsCaught ==
    detected # "none" =>
        /\ detected \in PageTypes
        /\ UnguardedRaised(page) => detected = "unknown"
        /\ detected = DetectPageType([page EXCEPT !.heading_err = FALSE])

\* the last unguarded access of the classification raised
C19_Witness ==
    /\ detected = "unknown"
    /\ page.err = "review"
    /\ UnguardedRaised(page)
    /\ page.submit

\* C28: detect_current_page_type returns unknown exactly when none of these
\* holds: a visible email/tel input; a visible file-upload control or
\* document-upload container; one of the three questions signals (a visible
\* 'Additional Question(s)' heading, question-phrase text on a page without
\* contact/resume markers, or at least 2 radio groups or 1 select together
\* with a question-like label); a visible primary button labelled submit.
\* Questions is returned only on one of those three signals.  (Taken on a
\* page none of whose reads raises.)
C28_ThreeQuestionsSignals ==
    (detected # "none" /\ page.err = "none") =>
        /\ detected = "unknown" <=>
              ~(\/ ContactSignal(page)
                \/ ResumeSignal(page)
                \/ HeadingSignal(page)
                \/ TextSignal(page)
                \/ StructureSignal(page)
                \/ ReviewSignal(page))
        /\ detected = "questions" =>
              \/ HeadingSignal(page)
              \/ TextSignal(page)
              \/ StructureSignal(page)

\* C28 (amended): there is a fourth questions signal, at least 2 displayed
\* form inputs (text or number inputs, selects, textareas) that are not
\* email, phone or file inputs.  The classifier returns unknown exactly when an unguarded read of
\* a check it reaches raises, or none of the contact, resume, four questions
\* and review signals holds; questions is returned only on one of the four
\* questions signals.
C28_FourQuestionsSignals ==
    detected # "none" =>
        /\ detected = "unknown" <=>
              \/ UnguardedRaised(page)
              \/ ~(\/ ContactSignal(page)
                   \/ ResumeSignal(page)
                   \/ QuestionsSignal(page)
                   \/ ReviewSignal(page))
        /\ detected = "questions" => QuestionsSignal(page)

\* a page classified questions on the count of its form inputs alone
C28_Witness ==
    /\ detected = "questions"
    /\ page.err = "none"
    /\ page.other_inputs >= MinNonContactInputs
    /\ ~HeadingSignal(page)
    /\ ~TextSignal(page)
    /\ ~StructureSignal(page)
    /\ ~page.submit

(***************************************************************************)
(* Properties of the batch (specification SpecBatch)                       *)
(***************************************************************************)
Qualifying == {i \in 1..Len(matches) : matches[i].score >= min_score}

NonIncreasing(s) == \A i \in 1..Len(s) : \A j \in i..Len(s) : s[i] >= s[j]

\* C6: only candidates whose final_score is at least the threshold are
\* navigated to, and they are navigated to in non-increasing score order,
\* whatever the order of the list passed in.
C6_AttemptOrder ==
    /\ \A i \in 1..Len(navigated) : navigated[i] >= min_score
    /\ NonIncreasing(navigated)

C6_Witness ==
    /\ Len(given) = 3
    /\ given[1].score < given[3].score
    /\ given[2].score < min_score
    /\ Len(navigated) = 2
    /\ navigated[1] > navigated[2]

\* C7: every candidate below the threshold and every candidate whose job has
\* no link is counted as skipped and not as failed (stated for the candidate
\* the loop has just processed, matches[idx - 1]).
C7_SkippedNotFailed ==
    (bpc \in {"for", "done"} /\ idx > 1
       /\ (matches[idx - 1].score < min_score \/ ~matches[idx - 1].link))
       => outcome = "skipped"

\* C8 (as claimed): with Q qualifying candidates and max_apply = M exactly
\* min(Q, M) attempts are made.
C8_ExactlyMinAttempts ==
    bpc = "done" =>
        results.attempted = Min(Cardinality(Qualifying), max_apply)

\* C8 (amended): max_apply caps the successful applications, not the
\* attempts: between min(Q, M) and Q attempts are made, and the run stops
\* short of the Q qualifying candidates only once M applications succeeded.
C8_AttemptsAmended ==
    bpc = "done" =>
        /\ results.attempted >= Min(Cardinality(Qualifying), max_apply)
        /\ results.attempted <= Cardinality(Qualifying)
        /\ results.attempted < Cardinality(Qualifying)
              => applied_count = max_apply

C8_Witness ==
    /\ bpc = "done"
    /\ max_apply = 1
    /\ Cardinality(Qualifying) = 2
    /\ results.attempted = 2

\* C9: the applied count never exceeds max_apply, and once it has reached
\* max_apply no further candidate is navigated to.
C9_AppliedCap ==
    /\ [](applied_count <= max_apply /\ results.applied <= max_apply)
    /\ [][applied_count >= max_apply => navigated' = navigated]_vars

C9_Witness ==
    /\ bpc = "done"
    /\ max_apply >= 1
    /\ applied_count = max_apply
    /\ idx <= Len(matches)
    /\ matches[idx].score >= min_score
    /\ matches[idx].link

\* the page loaded for the current candidate shows an external-application
\* phrase to check_external_application
ExternalPage ==
    /\ job_page.loaded
    /\ job_page.marker
    /\ ~job_page.src_err

\* C10: a job whose loaded page holds an external-application phrase is
\* counted as skipped and not as failed; its apply button is never clicked
\* and handle_easy_apply_form (hence every section handler) is never entered.
C10_ExternalSkipped ==
    /\ [](ExternalPage =>
            /\ ~clicked_apply
            /\ ~form_entered
            /\ bpc \in {"find_apply", "for", "done"}
            /\ bpc \in {"for", "done"} => outcome = "skipped")
    /\ [][(ExternalPage /\ bpc = "find_apply") =>
            /\ results'.skipped = results.skipped + 1
            /\ results'.failed = results.failed
            /\ results'.applied = results.applied]_vars

C10_Witness ==
    /\ ExternalPage
    /\ job_page.button = "easy"
    /\ bpc = "for"
    /\ outcome = "skipped"

\* C16: when the modal does not appear within the wait, the session ends as
\* failure at once: no step is begun, the page is never classified, no
\* section handler runs, no button is clicked and no prompt is shown.
C16_NoModalNoSteps ==
    exit_line = 442 =>
        /\ pc = "done"
        /\ result = "False"
        /\ current_step = 0
        /\ page_type = "none"
        /\ invoked = NoCalls
        /\ completed_sections = {}
        /\ consecutive_errors = 0
        /\ answer = "none"
        /\ ~indicator_seen

\* the wait for the modal timed out
C16_Witness == exit_line = 442 /\ result = "False" /\ pc = "done"

\* every call of the handler of sec returned, so sec was recorded as completed
AlwaysReturned(sec) ==
    invoked[sec] > 0 =>
        /\ sec \in completed_sections
        /\ invoked[sec] = 1

\* C15: each section handler (contact, resume, questions) returns true to
\* the step loop and never raises, whatever the page and the operator input
\* channel do, so every section whose handler was invoked is recorded as
\* completed.
C15_HandlersNeverRaise ==
    pc \in {"click", "done"} => \A sec \in Sections : AlwaysReturned(sec)

\* the step loop is running (it has not returned and is not at the prompt
\* that ends it)
LoopRunning == pc \in {"loop", "classify", "handle", "click"}

\* C20: when no next button is found the counter is incremented and the
\* session is aborted only when the counter exceeds max_consecutive_errors;
\* after three consecutive failed steps the loop is still running.
C20_AbortOnlyAboveBudget ==
    (pc = "ask_manual" \/ exit_line = 629) =>
        consecutive_errors > MaxConsecutiveErrors

\* C20 (amended): when no next button is found the counter is incremented;
\* the session is ended (by the 'Did you submit manually?' prompt) as soon as
\* the counter reaches max_consecutive_errors, and otherwise the loop goes on
\* with the next step.  While the loop runs the counter is below the budget:
\* two consecutive failed steps are tolerated, the third one ends the session.
C20_AbortAtBudget ==
    /\ [][(pc = "click" /\ consecutive_errors' = consecutive_errors + 1) =>
            pc' = IF consecutive_errors' >= MaxConsecutiveErrors
                  THEN "ask_manual" ELSE "loop"]_vars
    /\ [][pc = "ask_manual" => pc' = "done"]_vars
    /\ [](pc = "ask_manual" => consecutive_errors = MaxConsecutiveErrors)
    /\ [](LoopRunning => consecutive_errors < MaxConsecutiveErrors)

\* the third consecutive step without a button has led to the prompt
C20_Witness ==
    /\ pc = "ask_manual"
    /\ consecutive_errors = MaxConsecutiveErrors
    /\ current_step = MaxConsecutiveErrors
    /\ result = "pending"

(***************************************************************************)
(* Exceptions inside one job (specification SpecBatch)                     *)
(***************************************************************************)

\* the candidate that raised is counted as failed and the loop goes on
CountedFailedAndGoesOn ==
    /\ outcome' = "failed"
    /\ results'.failed = results.failed + 1
    /\ idx' = idx + 1
    /\ bpc' = "for"

C12_DetailsPerJob ==
    bpc = "done" =>
        Len(results.details) >= results.attempted

(***************************************************************************)
(* Properties of safe_click and of the resume handler (SpecResume)         *)
(***************************************************************************)

\* C13: safe_click runs the direct click, the script click and the
\* scroll-then-script click in this order, stops at the first one that does
\* not throw and returns true there, and returns false exactly when all three
\* throw; an element that throws on the direct click and accepts the script
\* click is reported as clicked.
C13_FirstStrategyThatWorks ==
    click_return # "none" =>
        LET element == resume_page.radio
            n == Len(tried)
        IN  /\ n \in 1..Len(Strategies)
            /\ tried = SubSeq(Strategies, 1, n)
            /\ \A k \in 1..(n - 1) : element[k]
            /\ click_return = "True" => ~element[n]
            /\ click_return = "False" <=> (\A k \in 1..Len(Strategies) : element[k])
            /\ click_return = "False" => n = Len(Strategies)
            /\ (element[1] /\ ~element[2]) =>
                  /\ click_return = "True"
                  /\ tried = <<"click", "script_click">>

\* the direct click threw and the script click was accepted
C13_Witness ==
    /\ click_return = "True"
    /\ resume_page.radio[1]
    /\ ~resume_page.radio[2]
    /\ tried = <<"click", "script_click">>

(***************************************************************************)
(* Properties of the server's batch worker (SpecWorker)                    *)
(***************************************************************************)

\* C14: the applier accepts the questions callback that the batch worker
\* supplies, so a worker that has its browser session and its resume file
\* gets an applier and goes on to apply to the jobs; it does not end in
\* error at the construction.
C14_CallbackAccepted ==
    (wpc \in {"loop", "done"} /\ scraper_session /\ resume_file) =>
        /\ applier = "constructed"
        /\ apply_progress.stage # "error"

\* C18: when a resume document is already selected on the page, as
\* is_resume_already_selected reads it, handle_resume_section does nothing:
\* no radio button is clicked, no click strategy runs, no file is uploaded,
\* and it returns true.
C18_AlreadySelectedNoOp ==
    (resume_return # "none" /\ IsResumeAlreadySelected(resume_page)) =>
        /\ resume_return = "True"
        /\ clicked = 0
        /\ click_return = "none"
        /\ tried = <<>>
        /\ uploaded = 0

\* the handler has run on a page with a selected resume that also offers a
\* matching unselected item and a working file input
C18_Witness ==
    /\ resume_return = "True"
    /\ IsResumeAlreadySelected(resume_page)
    /\ resume_page.err = "none"
    /\ \E i \in 1..Len(resume_page.items) :
          resume_page.items[i] = "match_unselected"
    /\ \E j \in 1..Len(resume_page.files) : resume_page.files[j] = "ok"

\* the items of the document list whose text holds the resume filename, with
\* or without its extension
MatchingItems(p) ==
    {i \in 1..Len(p.items) :
        p.items[i] \in {"match_noradio", "match_selected", "match_unselected"}}

\* C27: handle_resume_section hands the resume path to a file input only
\* when no item of the document list matches the resume filename; when a
\* matching item exists it selects that item's radio button and never
\* uploads, and in every case it makes at most one selection or upload per
\* call.
C27_UploadOnlyWithoutMatch ==
    resume_return # "none" =>
        /\ uploaded > 0 => MatchingItems(resume_page) = {}
        /\ clicked > 0 => clicked \in MatchingItems(resume_page)
        /\ ~(clicked > 0 /\ uploaded > 0)

(***************************************************************************)
(* Properties of the contact handler (SpecContact)                         *)
(***************************************************************************)

\* the call wrote own into the field, which was displayed and empty
WrittenWhenEmpty(own, field, field_after) ==
    field_after # field =>
        /\ own # ""
        /\ Displayed(field)
        /\ field.value = <<>>
        /\ field_after = [field EXCEPT !.value = <<own>>]

\* C17: fill_contact_info writes the applier's email (phone) into the email
\* (telephone) field only when the field is displayed and its value is
\* empty; a field with a value is left as it is, and a second call on the
\* same page changes nothing.
C17_FillOnlyEmpty ==
    /\ [][/\ WrittenWhenEmpty(email, email_field, email_field')
          /\ WrittenWhenEmpty(phone, phone_field, phone_field')]_vars
    /\ [](contact_runs >= 2 => contact_before = <<email_field, phone_field>>)

\* the first call typed the email, left the phone field's value alone, and
\* the handler has run a second time
C17_Witness ==
    /\ contact_runs = 2
    /\ email_field = [state |-> "shown", value |-> <<"me@mail">>]
    /\ phone # ""
    /\ phone_field = [state |-> "shown", value |-> <<"0000">>]

\* C21: after a submit-typed button has been clicked the session ends within
\* that same step, Submitted when the poll sees the indicator and otherwise
\* by the operator's answer, whatever the page and the operator prompt do:
\* the loop does not go back to classify the page or to click a second
\* button.
C21_SubmitEndsSession ==
    submit_clicked =>
        \/ pc = "ask_sent"
        \/ /\ pc = "done"
           /\ \/ exit_line = 642 /\ result = "True"
              \/ /\ exit_line = 646
                 /\ result = (IF answer = "y" THEN "True" ELSE "False")

\* C22: if the click made in a step brings up the success indicator and the
\* indicator stays displayed, the session's outcome is Submitted, in every
\* step up to and including the last one max_steps allows and for every kind
\* of button clicked: handle_easy_apply_form never returns failure while the
\* success indicator is displayed.
C22_DisplayedMeansSubmitted ==
    (pc = "done" /\ displayed) => result = "True"

\* C25: at the start of every step, before the page is classified, the loop
\* checks the success indicator; if it is present the session ends as
\* Submitted in that step, with no handler invoked and no button clicked in
\* that step.
C25_IndicatorCheckedFirst ==
    /\ [][(pc = "loop" /\ current_step < max_steps /\ displayed) =>
            /\ pc' = "done"
            /\ result' = "True"
            /\ exit_line' = 460
            /\ current_step' = current_step + 1
            /\ invoked' = invoked
            /\ completed_sections' = completed_sections
            /\ page_type' = page_type
            /\ submit_clicked' = submit_clicked
            /\ consecutive_errors' = consecutive_errors]_vars
    /\ [](pc \in {"classify", "handle", "click"} => ~displayed)

\* a step after the first found the indicator that the last click brought up
C25_Witness ==
    /\ pc = "done"
    /\ exit_line = 460
    /\ result = "True"
    /\ displayed
    /\ current_step = 3
    /\ ~submit_clicked

\* C26: a successful button click resets the consecutive-error counter to 0,
\* so a session is ended on the consecutive-error budget only after that many
\* steps in a row have failed with no successful click between them; at the
\* start of every step the counter is below the budget.
C26_ClickResetsCounter ==
    /\ [][(pc = "click" /\ failed_in_row' = 0) =>
            consecutive_errors' = 0]_vars
    /\ [](exit_line \in {629, 654} =>
            failed_in_row >= MaxConsecutiveErrors)
    /\ [](pc = "loop" => consecutive_errors < MaxConsecutiveErrors)

\* two failed steps, a click, and then the three failed steps in a row that
\* end the session
C26_Witness ==
    /\ pc = "done"
    /\ exit_line = 629
    /\ current_step = 6
    /\ failed_in_row = MaxConsecutiveErrors
    /\ consecutive_errors = MaxConsecutiveErrors

(***************************************************************************)
(* Properties of the fallback branch (specification SpecFallback)          *)
(***************************************************************************)
OneCall(sec) == [k \in Sections |-> IF k = sec THEN 1 ELSE 0]

\* the sections whose handler was called so far in this step
Called == {k \in Sections : fb_walk.calls[k] > 0}

\* the first of contact, resume, questions whose looser heuristic matches the
\* page while the section is not completed
FirstMatch ==
    IF fb_page.contact /\ "contact" \notin fb_completed THEN "contact"
    ELSE IF fb_page.resume /\ "resume" \notin fb_completed THEN "resume"
    ELSE IF (fb_page.headings > 0 \/ fb_page.structure)
            /\ "questions" \notin fb_completed THEN "questions"
    ELSE "none"

\* the earliest section that is not completed
Earliest(completed) ==
    IF "contact" \notin completed THEN "contact"
    ELSE IF "resume" \notin completed THEN "resume"
    ELSE IF "questions" \notin completed THEN "questions"
    ELSE "none"

\* the section a heuristic speaks for
SectionOf(part) ==
    IF part \in {"heading", "structure"} THEN "questions" ELSE part

\* C23: on a step classified unknown the looser heuristics are tried in the
\* order contact, resume, questions, each running only the handler of its own
\* section; if none of them leads to a handler being run, the handler of the
\* earliest section not yet completed (contact, resume, questions) is run,
\* and no handler is run when all three are completed.
C23_FallbackOrder ==
    /\ [][/\ fb_stage = "contact" => fb_stage' = "resume"
          /\ fb_stage = "resume" => fb_stage' = "heading"
          /\ fb_stage = "heading" => fb_stage' = "structure"
          /\ fb_stage = "structure" => fb_stage' = "last"
          /\ fb_stage = "last" => fb_stage' = "done"]_vars
    /\ [][(fb_stage \in {"contact", "resume", "heading", "structure"}) =>
            (\A k \in Sections \ {SectionOf(fb_stage)} :
                fb_walk'.calls[k] = fb_walk.calls[k])]_vars
    /\ []((fb_stage = "last" /\ fb_page.err = "none") =>
            Called = (IF FirstMatch = "none" THEN {} ELSE {FirstMatch}))
    /\ [][(fb_stage = "last" /\ fb_walk.calls = NoCalls) =>
            fb_walk'.calls =
                (IF Earliest(fb_walk.completed) = "none" THEN NoCalls
                 ELSE OneCall(Earliest(fb_walk.completed)))]_vars

\* no heuristic matched a page met after the contact step, and the last
\* resort ran the resume handler
C23_Witness ==
    /\ fb_stage = "done"
    /\ fb_completed = {"contact"}
    /\ FirstMatch = "none"
    /\ fb_walk.calls = OneCall("resume")
    /\ fb_walk.completed = {"contact", "resume"}

(***************************************************************************)
(* Properties of find_and_click_next_button (specification SpecButton)     *)
(***************************************************************************)
\* the priority classes of the claim, in its order
Rank(label) ==
    CASE label = "submit" -> 1
      [] label = "review" -> 2
      [] label = "next" -> 3
      [] label = "primary" -> 4

Clickable == {i \in 1..Len(buttons) : buttons[i] = "clickable"}

\* the located candidates before the i-th that no strategy could click
UnclickableBefore(i) ==
    {j \in 1..(i - 1) : buttons[j] = "unclickable"}

SetOf(seq) == {seq[k] : k \in 1..Len(seq)}

\* C24: find_and_click_next_button clicks the first clickable candidate in
\* the priority order Submit, Review, Next/Continue, generic primary button,
\* and reports is_submit = true exactly when the button it clicked was
\* matched by a Submit-labelled selector; a located candidate that no click
\* strategy can click is passed over for the next one, and (false, false) is
\* reported only when no candidate was both located and clicked.
C24_FirstClickableInOrder ==
    /\ \A i, j \in 1..Len(ButtonSelectors) :
          i < j => Rank(ButtonSelectors[i].label) <= Rank(ButtonSelectors[j].label)
    /\ button_return # <<>> =>
          /\ button_return \in NextButtonResults
          /\ IF Clickable = {}
             THEN /\ button_return = <<FALSE, FALSE>>
                  /\ SetOf(handed) = UnclickableBefore(Len(buttons) + 1)
             ELSE LET first == CHOOSE i \in Clickable :
                                  \A j \in Clickable : i <= j
                  IN  /\ button_return =
                           <<TRUE, ButtonSelectors[first].label = "submit">>
                      /\ handed[Len(handed)] = first
                      /\ SetOf(handed) = UnclickableBefore(first) \cup {first}

\* a Submit-labelled button could not be clicked by any strategy and the
\* Review button after it was clicked
C24_Witness ==
    /\ button_return = <<TRUE, FALSE>>
    /\ buttons[1] = "unclickable"
    /\ handed = <<1, 4>>

(***************************************************************************)
(* Properties of the server session (specification SpecServer)             *)
(***************************************************************************)
\* C29: for every interleaving of the worker threads with status polls, a
\* poll that observes the stage 'complete' also observes the corresponding
\* results already populated; an observer never sees 'complete' with the
\* results missing.
C29_CompleteHasResults ==
    (status_pc = "responded" /\ response.stage = "complete") =>
        response.results \in {"no_jobs", "success"}

\* C30: for every interleaving of batch_apply requests on one session, at
\* most one batch-apply worker thread is ever started for that session, so
\* the session's browser driver is never driven by two threads at once.
C30_OneApplyThread == apply_threads <= 1

(***************************************************************************)
(* Properties of the questions callback (specification SpecQuestions)      *)
(***************************************************************************)
\* the wait of the callback ran into the timeout
TimedOut == cb_pc \in {"clear", "done"} /\ elapsed >= timeout

C32_BoundedWait ==
    /\ [][elapsed' > elapsed =>
            /\ ~questions_confirmed
            /\ elapsed < timeout
            /\ elapsed' = elapsed + 1]_vars
    /\ [][(cb_pc = "wait" /\ cb_pc' # "wait") =>
            (questions_confirmed \/ elapsed = timeout)]_vars
    /\ [](elapsed <= timeout)
    /\ [](cb_pc = "wait" => waiting_for_questions)
    /\ [](cb_pc = "done" => ~waiting_for_questions)

\* the callback has returned on the timeout path
C32_Witness ==
    /\ cb_pc = "done"
    /\ elapsed = timeout
    /\ ~questions_confirmed
    /\ ~waiting_for_questions

(***************************************************************************)
(* Properties of the login confirmation (specification SpecServer)         *)
(***************************************************************************)
\* the search worker is past its wait loop: it verifies the login, searches,
\* matches or publishes
PastLoginWait ==
    search_pc \in {"login", "search", "no_jobs", "match", "results", "cleanup"}

\* C33: the search worker does not verify the login or start scraping until
\* login_confirmed has been set; confirm_login is accepted only while the
\* session stage is 'waiting_login', and in any other stage it is rejected
\* and leaves the session's stage, progress and login_confirmed unchanged.
C33_LoginGate ==
    /\ [](PastLoginWait => login_confirmed)
    /\ [][(login_pc # "flag" /\ login_pc' = "flag") =>
            stage = "waiting_login"]_vars
    /\ [][(login_pc # "rejected" /\ login_pc' = "rejected") =>
            /\ stage # "waiting_login"
            /\ UNCHANGED <<stage, progress, login_confirmed>>]_vars
    /\ [][login_confirmed' # login_confirmed => login_pc = "flag"]_vars

\* the login was confirmed and the worker has gone on to the search
C33_Witness ==
    /\ login_pc = "done"
    /\ login_confirmed
    /\ search_pc = "search"

(***************************************************************************)
(* Properties of the outcome counters (specification SpecBatch)            *)
(***************************************************************************)
\* C34: at the end of every loop iteration of apply_to_jobs, applied +
\* failed + skipped equals the number of candidates processed so far, no
\* candidate is counted in two outcome counters, and attempted equals
\* applied + failed (external-only and below-threshold candidates are not
\* counted as attempted).
C34_CountersAddUp ==
    (bpc = "for" /\ idx >= 1) =>
        /\ results.applied + results.failed + results.skipped = idx - 1
        /\ results.attempted = results.applied + results.failed

\* C38: whenever a job's step loop ends in failure, or an exception is raised
\* while applying to the job (one that reaches _apply_to_job), close_modal is
\* attempted before the next candidate is navigated to; after a successful
\* application no dismissal is attempted.
C38_ModalDismissedOnFailure ==
    /\ [](bpc \in {"for", "done"} =>
            /\ ((form_entered /\ outcome = "failed") \/ raised) => closed_modal
            /\ outcome = "applied" => ~closed_modal)
    /\ [][(raised' /\ ~raised) => closed_modal']_vars
    /\ [][(Len(navigated') > Len(navigated)) => bpc = "apply"]_vars

\* a job's step loop has ended in failure without an exception and the modal
\* was dismissed
C38_Witness ==
    /\ bpc = "for"
    /\ form_entered
    /\ outcome = "failed"
    /\ ~raised
    /\ closed_modal

(***************************************************************************)
(* Properties of the section handlers of a step (specification Spec)       *)
(***************************************************************************)
\* the number of handler invocations recorded in inv
Invocations(inv) == inv["contact"] + inv["resume"] + inv["questions"]

\* C35: in one iteration of the step loop at most one section handler is
\* invoked, whichever branch (direct classification, fallback heuristic or
\* last-resort rule) selects it, so completed_sections grows by at most one
\* element per step.
C35_OneHandlerPerStep ==
    [][/\ Invocations(invoked') <= Invocations(invoked) + 1
       /\ Cardinality(completed_sections') <=
             Cardinality(completed_sections) + 1]_vars

\* C36: completed_sections never loses an element during a session, and at
\* the start of every step it contains exactly the section kinds (contact,
\* resume, questions) whose handler has been invoked in this session.
C36_CompletedAreInvoked ==
    /\ [][completed_sections \subseteq completed_sections']_vars
    /\ [](pc = "loop" =>
            completed_sections = {k \in Sections : invoked[k] > 0})

\* C37: on a step classified review, no section handler is invoked and
\* completed_sections is unchanged; the loop goes straight to the button
\* search.
C37_ReviewGoesToButtons ==
    [][(pc = "handle" /\ page_type = "review") =>
          /\ invoked' = invoked
          /\ completed_sections' = completed_sections
          /\ pc' = "click"]_vars

\* a review step is at the button search with sections still open
C37_Witness ==
    /\ pc = "click"
    /\ page_type = "review"
    /\ "questions" \notin completed_sections

====
